---- MODULE Spec2Model ----
(***************************************************************************)
(* Verification model of synthesizAR's data-assembly pipeline:             *)
(*   observe.py          Observer / ObserverSerial / ObserverParallel      *)
(*   instruments/base.py InstrumentBase (store schema, interpolate,        *)
(*                       write_to_hdf5, commit)                            *)
(*                                                                         *)
(* Numbers.  Arc length is measured in integer units; a loop with m native *)
(* points has its points at 0, NativeStep, ..., (m-1)*NativeStep.  Linear  *)
(* interpolation produces rationals; an interpolated array is kept as      *)
(* exact integer numerators over the per-loop denominator Scale(...), so   *)
(* no rounding is modelled and equality of stored cells is exact.          *)
(***************************************************************************)
EXTENDS Integers, Sequences, FiniteSets, TLC

----------------------------------------------------------------------------
(* Bounds of the model *)

NLoops == 2

NChannels == 1

NInstruments == 1

\* number of store calls a behaviour of StoreSpec makes
MaxCalls == 3

\* number of flattened samples in the store of BinSpec
NPoints == 3

\* number of concurrent callers creating an output directory in DirSpec
NCallers == 3

----------------------------------------------------------------------------
(* Program constants and input domains *)

\* observe.py:114-115 / 172-173: the hydrodynamic quantities, in loop order
HydroQuantities ==
    <<"velocity_x", "velocity_y", "velocity_z", "electron_temperature",
      "ion_temperature", "density">>

\* base.py:57-58: the datasets build_detector_file always allocates
dset_names ==
    {"density", "electron_temperature", "ion_temperature", "velocity_x",
     "velocity_y", "velocity_z"}

\* loop.py:151-225: the unit each loop quantity is declared with
QuantityUnit(q) ==
    CASE q \in {"velocity_x", "velocity_y", "velocity_z"} -> "cm / s"
      [] q \in {"electron_temperature", "ion_temperature"} -> "K"
      [] q = "density" -> "1 / cm3"
      [] OTHER -> "ct / (pix s)"

\* spacing of a loop's native points along the field-aligned coordinate
NativeStep == 2

Loops == 1..NLoops

\* names of an instrument's channels, in the order instr.channels lists them
ChannelName(c) == "channel" \o ToString(c)

Channels == {ChannelName(c) : c \in 1..NChannels}

\* names of the observer's instruments, in the order self.instruments lists
InstrumentName(a) == "instr" \o ToString(a)

Instruments == {InstrumentName(a) : a \in 1..NInstruments}

\* values of ds (observe.py:62) the inputs are drawn from
DsValues == {1, 3}

\* the kinds of loop a field is made of: native point count (at least two)
\* and loop.time grid (loop.py:140): a static loop with one time sample,
\* and two loops of different lengths with two time samples
LoopKinds ==
    <<[native |-> 2, time |-> <<0>>],
      [native |-> 2, time |-> <<0, 2>>],
      [native |-> 3, time |-> <<0, 2>>]>>

\* the fields (field.loops) the inputs are drawn from: every way of
\* going through the kinds of loop in turn
LoopFields ==
    {[i \in Loops |-> LoopKinds[1 + ((i + r) % Len(LoopKinds))]] :
        r \in 1..Len(LoopKinds)}

\* instrument observing times (base.py:40-42, an arange)
ObservingTimes == {<<0>>, <<1>>, <<0, 1>>}

----------------------------------------------------------------------------
(* Arithmetic helpers *)

\* np.ceil(a / b) for a >= 0, b > 0
Ceil(a, b) == (a + b - 1) \div b

RECURSIVE SumSeq(_)
\* sum of a sequence of integers
SumSeq(s) == IF s = <<>> THEN 0 ELSE s[1] + SumSeq(Tail(s))

Min(a, b) == IF a < b THEN a ELSE b

Max(a, b) == IF a > b THEN a ELSE b

----------------------------------------------------------------------------
(* Loops (loop.py) *)

\* position of a quantity in the order the schedulers iterate it
QIndex(q) == CHOOSE i \in 1..Len(HydroQuantities) : HydroQuantities[i] = q

\* loop.py:74-83: the field-aligned coordinate of a loop's native points,
\* starting at 0 and increasing
field_aligned_coordinate(loop) ==
    [j \in 1..loop.native |-> (j - 1) * NativeStep]

\* loop.py:121-125: full length L of the loop
length(loop) == (loop.native - 1) * NativeStep

\* loop.py:151-225: the native sample of quantity q on loop number l at
\* time index ti and position index sj; a fixed, positive,
\* position-nonlinear table so that windows of distinct loops and
\* quantities hold distinct values
LoopQuantity(l, q, ti, sj) ==
    10 * l + QIndex(q) + 2 * sj * sj + 3 * (ti - 1)

----------------------------------------------------------------------------
(* CurveResampler: ObserverSerial._interpolate_loops *)

\* observe.py:72: n_interp = int(np.ceil(loop.length / ds))
n_interp(loop, d) == Ceil(length(loop), d)

\* observe.py:71-75: the per-loop resampled counts, in loop order; the array
\* interpolated_s of a loop is linspace(0, L, n) and is determined by its
\* length n, which is what the model keeps
interpolated_loop_coordinates(lps, d) ==
    [i \in 1..Len(lps) |-> n_interp(lps[i], d)]

\* mutant of start_indices: the cumulative sums without the leading 0
start_indices_cumsum(ns) ==
    [i \in 1..Len(ns) |-> SumSeq(SubSeq(ns, 1, i))]

\* observe.py:167-168: np.insert(cumsum(n)[:-1], 0, 0): the column at which
\* the window of each loop starts (counted from 0)
start_indices(ns) ==
    [i \in 1..Len(ns) |-> SumSeq(SubSeq(ns, 1, i - 1))]

RECURSIVE total_coordinates_upto(_, _)
\* observe.py:77-79: vstack of the spline of each loop evaluated at
\* linspace(0, 1, n); row <<i, k, n>> stands for loop i's spline at
\* parameter (k-1)/(n-1)
total_coordinates_upto(ns, i) ==
    IF i = 0 THEN <<>>
    ELSE total_coordinates_upto(ns, i - 1)
         \o [k \in 1..ns[i] |-> <<i, k, ns[i]>>]

total_coordinates(ns) == total_coordinates_upto(ns, Len(ns))

----------------------------------------------------------------------------
(* InterpolationTask: InstrumentBase.interpolate *)

\* denominator of the spatial step for a loop resampled to n points
SpaceScale(n) == Max(n - 1, 1) * NativeStep

\* base.py:104-105: interp1d(s, y, axis=1, kind='linear') evaluated at
\* linspace(0, L, n)[k]; returns the numerator over SpaceScale(n)
SpatialInterp(loop, l, q, ti, n, k) ==
    LET X == length(loop) * (k - 1)
        D == Max(n - 1, 1)
        j == Min(X \div (D * NativeStep), loop.native - 2)
        y0 == LoopQuantity(l, q, ti, j + 1)
        y1 == LoopQuantity(l, q, ti, j + 2)
    IN  y0 * D * NativeStep + (y1 - y0) * (X - j * NativeStep * D)

\* the segment of the grid tm that interp1d(..., fill_value='extrapolate')
\* uses for time t: the last one starting at or before t, the first one
\* when t lies before the grid
TimeSegment(tm, t) ==
    LET below == {a \in 1..(Len(tm) - 1) : tm[a] <= t}
    IN  IF below = {} THEN 1
        ELSE CHOOSE a \in below : \A b \in below : b <= a

\* base.py:112-113: linear interpolation (and edge extrapolation) in time of
\* the spatially interpolated samples; numerator over the segment width
TemporalInterp(loop, l, q, t, n, k) ==
    LET a  == TimeSegment(loop.time, t)
        w  == loop.time[a + 1] - loop.time[a]
        ya == SpatialInterp(loop, l, q, a, n, k)
        yb == SpatialInterp(loop, l, q, a + 1, n, k)
    IN  ya * w + (yb - ya) * (t - loop.time[a])

\* base.py:109: np.all(loop.time == self.observing_time) for a loop.time of
\* shape (1,), broadcast against the observing time
StaticTimesAgree(loop, observing_time) ==
    \A r \in 1..Len(observing_time) : observing_time[r] = loop.time[1]

\* base.py:98-114: interpolate quantity q of loop number l to n points and
\* to the observing time.  ok = FALSE is the AssertionError of line 109;
\* value is the (rows x n) array, unit the unit of y
interpolate(q, l, loop, n, observing_time) ==
    IF Len(loop.time) = 1
    THEN [ok |-> StaticTimesAgree(loop, observing_time),
          value |-> << [k \in 1..n |-> SpatialInterp(loop, l, q, 1, n, k)] >>,
          unit |-> QuantityUnit(q)]
    ELSE [ok |-> TRUE,
          value |-> [r \in 1..Len(observing_time) |->
                      [k \in 1..n |->
                         TemporalInterp(loop, l, q, observing_time[r], n, k)]],
          unit |-> QuantityUnit(q)]

----------------------------------------------------------------------------
(* ChunkedStore: the HDF5 counts file of one instrument.  A store is a     *)
(* function from the names of the datasets it holds to datasets; a dataset *)
(* is [shape, attrs, data], attrs a function defined on "unit" once a unit *)
(* is recorded.  A file that does not exist yet holds no dataset.          *)

EmptyStore == <<>>

NoAttrs == <<>>

\* h5py create_dataset(name, shape): a (rows x cols) dataset of fill values
create_dataset(shape) ==
    [shape |-> shape,
     attrs |-> NoAttrs,
     data  |-> [r \in 1..shape[1] |-> [c \in 1..shape[2] |-> 0]]]

\* base.py:64-65: the time axis with its unit
time_dataset(observing_time) ==
    [shape |-> <<Len(observing_time)>>,
     attrs |-> [unit |-> "s"],
     data  |-> observing_time]

\* observe.py:99-100: the coordinates array with its unit
coordinates_dataset(coords) ==
    [shape |-> <<Len(coords), 3>>,
     attrs |-> [unit |-> "cm"],
     data  |-> coords]

\* mutant of build_detector_file: the datasets of the schema are created
\* whether or not the file holds them
build_detector_file_recreate(hf, observing_time, dset_shape, fields) ==
    LET names == dset_names \cup fields
    IN  [dn \in DOMAIN hf \cup {"time"} \cup names |->
            IF dn = "time" THEN time_dataset(observing_time)
            ELSE IF dn \in names THEN create_dataset(dset_shape)
            ELSE hf[dn]]

\* base.py:53-68: allocate space for counts data in store file hf: the time
\* axis and every dataset of dset_names + additional_fields that the file
\* does not hold yet; datasets the file holds are left as they are
build_detector_file(hf, observing_time, dset_shape, fields) ==
    LET names == dset_names \cup fields
    IN  [dn \in DOMAIN hf \cup {"time"} \cup names |->
            IF dn \in DOMAIN hf THEN hf[dn]
            ELSE IF dn = "time" THEN time_dataset(observing_time)
            ELSE create_dataset(dset_shape)]

\* observe.py:97-100: create the coordinates array unless the file holds it
build_coordinates(hf, coords) ==
    IF "coordinates" \in DOMAIN hf THEN hf
    ELSE [dn \in DOMAIN hf \cup {"coordinates"} |->
            IF dn \in DOMAIN hf THEN hf[dn] ELSE coordinates_dataset(coords)]

\* observe.py:93-100 for one instrument: the store after
\* build_detector_files(savedir, ds, additional_fields=...) on store hf
build_detector_files(hf, lps, d, observing_time, additional_fields) ==
    LET ns         == interpolated_loop_coordinates(lps, d)
        coords     == total_coordinates(ns)
        dset_shape == <<Len(observing_time), Len(coords)>>
    IN  build_coordinates(
            build_detector_file(hf, observing_time, dset_shape,
                                additional_fields),
            coords)

\* mutant of commit_unit: a commit to a dataset that has a unit recorded
\* resets it to dimensionless
commit_unit_reset(y, dset) ==
    IF "unit" \notin DOMAIN dset.attrs
    THEN [dset EXCEPT !.attrs = [unit |-> y.unit]]
    ELSE [dset EXCEPT !.attrs = [unit |-> "dimensionless"]]

\* base.py:127-128: record the unit of y unless the dataset has one
commit_unit(y, dset) ==
    IF "unit" \notin DOMAIN dset.attrs
    THEN [dset EXCEPT !.attrs = [unit |-> y.unit]]
    ELSE dset

\* mutant of commit_data: the block is written at the first columns,
\* whatever the start index
commit_data_at_origin(y, dset, start_index) ==
    LET n == Len(y.value[1])
    IN  [dset EXCEPT !.data =
            [r \in 1..dset.shape[1] |-> [c \in 1..dset.shape[2] |->
                IF c <= n THEN y.value[r][c] ELSE dset.data[r][c]]]]

\* mutant of commit_data: the block is written at its window and every
\* other column of the dataset is cleared
commit_data_clear_rest(y, dset, start_index) ==
    LET n == Len(y.value[1])
    IN  [dset EXCEPT !.data =
            [r \in 1..dset.shape[1] |-> [c \in 1..dset.shape[2] |->
                IF start_index < c /\ c <= start_index + n
                THEN y.value[r][c - start_index]
                ELSE 0]]]

\* base.py:129: dset[:, start_index:(start_index + y.shape[1])] = y.value,
\* for a block y.value whose rows are the dataset's rows and whose window
\* lies inside the dataset's columns (start_index counts from 0)
commit_data(y, dset, start_index) ==
    LET n == Len(y.value[1])
    IN  [dset EXCEPT !.data =
            [r \in 1..dset.shape[1] |-> [c \in 1..dset.shape[2] |->
                IF start_index < c /\ c <= start_index + n
                THEN y.value[r][c - start_index]
                ELSE dset.data[r][c]]]]

\* base.py:125-129: InstrumentBase.commit
commit(y, dset, start_index) ==
    commit_data(y, commit_unit(y, dset), start_index)

\* whether block y at start_index fits dataset dset (rows equal, window
\* inside the columns); h5py raises on a block that does not
Fits(y, dset, start_index) ==
    /\ Len(dset.shape) = 2
    /\ Len(y.value) = dset.shape[1]
    /\ start_index + Len(y.value[1]) <= dset.shape[2]

----------------------------------------------------------------------------
(* Channel count computation.  The instruments' flatten_serial and         *)
(* flatten_parallel are not part of the sources at hand; they are modelled *)
(* from the specification: the counts of a channel on a loop are computed  *)
(* from the store's interpolated electron temperature and density columns  *)
(* of that loop and committed to the channel's dataset at the loop's       *)
(* window.                                                                 *)

\* the count rate of channel number c at temperature te and density ne
ChannelResponse(c, te, ne) == c + te * ne

\* counts of channel number c on the columns (start_index, start_index+n]
calculate_counts(c, hf, start_index, n) ==
    [ok    |-> TRUE,
     value |-> [r \in 1..hf["density"].shape[1] |-> [k \in 1..n |->
                 ChannelResponse(c,
                     hf["electron_temperature"].data[r][start_index + k],
                     hf["density"].data[r][start_index + k])]],
     unit  |-> QuantityUnit(ChannelName(c))]

----------------------------------------------------------------------------
(* State *)

VARIABLES
    loops,          \* field.loops: sequence of [native, time]
    ds,             \* the resampling step given to build_detector_files
    observing_time, \* instr.observing_time of the instruments
    interpolate_hydro_quantities, \* kwarg of flatten_detector_counts
    hf,             \* hf[o][a]: store file of instrument a of observer o
    interp_coords,  \* interp_coords[o]: o._interpolated_loop_coordinates
    serial,         \* control state of the ObserverSerial run
    par,            \* control state of the ObserverParallel run
    y,              \* compute futures (interpolate / counts) of the client
    loop_futures,   \* write futures (write_to_hdf5) of the client
    locks,          \* distributed.Lock registry: held lock name -> holder
    maps,           \* detect futures of bin_detector_counts
    files,          \* image files saved by assemble_map
    dirs,           \* dirs[o]: directories under the savedir of observer o
    mk,             \* DirSpec: position of each caller creating a directory
    calls,          \* StoreSpec: number of store calls made so far
    last_call       \* StoreSpec: the last store call and the store before it

inputs == <<loops, ds, observing_time, interpolate_hydro_quantities>>

vars == <<loops, ds, observing_time, interpolate_hydro_quantities, hf,
          interp_coords, serial, par, y, loop_futures, locks, maps, files,
          dirs, mk, calls, last_call>>

\* the variables only StoreSpec changes
store_calls == <<calls, last_call>>

NoCall == [op |-> "none"]

Observers == {"serial", "parallel"}

NoFutures == <<>>

\* callers of the directory creation (DirSpec); none of them is running
Callers == 1..NCallers

NoCallers == [c \in Callers |-> "idle"]

Init ==
    /\ loops \in LoopFields
    /\ ds \in DsValues
    /\ observing_time \in ObservingTimes
    /\ interpolate_hydro_quantities \in BOOLEAN
    /\ hf = [o \in Observers |-> [a \in Instruments |-> EmptyStore]]
    /\ interp_coords = [o \in Observers |-> <<>>]
    /\ serial = [pc |-> "build", instr |-> 1, loop |-> 1, q |-> 1,
                 channel |-> 1, start_index |-> 0]
    /\ par = [pc |-> "build", instr |-> 1, q |-> 1, channel |-> 1]
    /\ y = NoFutures
    /\ loop_futures = NoFutures
    /\ locks = <<>>
    /\ maps = NoFutures
    /\ files = [o \in Observers |-> <<>>]
    /\ dirs = [o \in Observers |-> {}]
    /\ mk = NoCallers
    /\ calls = 0
    /\ last_call = NoCall

----------------------------------------------------------------------------
(* Sequential scheduler: ObserverSerial *)

\* observe.py:83-100: build_detector_files of observer o, all instruments
BuildStores(o) ==
    /\ hf' = [hf EXCEPT ![o] = [a \in Instruments |->
                build_detector_files(hf[o][a], loops, ds, observing_time,
                                     Channels)]]
    /\ interp_coords' =
          [interp_coords EXCEPT ![o] = interpolated_loop_coordinates(loops, ds)]

SerialBuild ==
    /\ serial.pc = "build"
    /\ BuildStores("serial")
    /\ serial' = [serial EXCEPT !.pc = "open"]
    /\ UNCHANGED <<dirs, mk,
                  store_calls, inputs, par, y, loop_futures, locks, maps, files>>

\* observe.py:109-112: open the store of the next instrument, start_index = 0
SerialOpen ==
    /\ serial.pc = "open"
    /\ serial' = [serial EXCEPT
                    !.pc = IF interpolate_hydro_quantities
                           THEN "hydro" ELSE "counts",
                    !.loop = 1, !.q = 1, !.channel = 1, !.start_index = 0]
    /\ UNCHANGED <<dirs, mk,
                  store_calls, inputs, hf, interp_coords, par, y, loop_futures, locks,
                   maps, files>>

\* mutant of SerialInterpolateCommit: start_index advances after every
\* quantity instead of after every loop
SerialInterpolateCommit_offset_per_quantity ==
    /\ serial.pc = "hydro"
    /\ LET a    == InstrumentName(serial.instr)
           i    == serial.loop
           q    == HydroQuantities[serial.q]
           n    == interp_coords["serial"][i]
           val  == interpolate(q, i, loops[i], n, observing_time)
           last == serial.q = Len(HydroQuantities)
       IN  /\ val.ok
           /\ Fits(val, hf["serial"][a][q], serial.start_index)
           /\ hf' = [hf EXCEPT !["serial"][a][q] =
                        commit(val, hf["serial"][a][q], serial.start_index)]
           /\ serial' = [serial EXCEPT
                 !.q = IF last THEN 1 ELSE serial.q + 1,
                 !.loop = IF ~last THEN i
                          ELSE IF i = NLoops THEN 1 ELSE i + 1,
                 !.start_index = serial.start_index + n,
                 !.pc = IF last /\ i = NLoops THEN "counts" ELSE "hydro",
                 !.channel = 1]
    /\ UNCHANGED <<dirs, mk,
                  store_calls, inputs, interp_coords, par, y, loop_futures,
                   locks, maps, files>>

\* observe.py:113-118: one pass of the inner loop: interpolate quantity q of
\* the current loop and commit it at start_index; after the last quantity
\* advance start_index by the loop's sample count and take the next loop.
\* An exception of interpolate ends the run.
SerialInterpolateCommit ==
    /\ serial.pc = "hydro"
    /\ LET a    == InstrumentName(serial.instr)
           i    == serial.loop
           q    == HydroQuantities[serial.q]
           n    == interp_coords["serial"][i]
           val  == interpolate(q, i, loops[i], n, observing_time)
           last == serial.q = Len(HydroQuantities)
       IN  IF ~val.ok
           THEN /\ serial' = [serial EXCEPT !.pc = "failed"]
                /\ UNCHANGED hf
           ELSE /\ hf' = [hf EXCEPT !["serial"][a][q] =
                             commit(val, hf["serial"][a][q], serial.start_index)]
                /\ serial' = [serial EXCEPT
                      !.q = IF last THEN 1 ELSE serial.q + 1,
                      !.loop = IF ~last THEN i
                               ELSE IF i = NLoops THEN 1 ELSE i + 1,
                      !.start_index = IF last THEN serial.start_index + n
                                      ELSE serial.start_index,
                      !.pc = IF last /\ i = NLoops THEN "counts" ELSE "hydro",
                      !.channel = 1]
    /\ UNCHANGED <<dirs, mk,
                  store_calls, inputs, interp_coords, par, y, loop_futures, locks, maps,
                   files>>

\* flatten_serial (modelled from the specification): one pass per channel
\* and loop: compute the channel's counts on the loop's columns and commit
\* them to the channel's dataset at the loop's window; after the last pass
\* the store is closed and the next instrument is taken
SerialCounts ==
    /\ serial.pc = "counts"
    /\ LET a     == InstrumentName(serial.instr)
           c     == serial.channel
           i     == serial.loop
           ns    == interp_coords["serial"]
           start == start_indices(ns)[i]
           val   == calculate_counts(c, hf["serial"][a], start, ns[i])
           lastL == i = NLoops
           lastC == c = NChannels
           lastA == serial.instr = NInstruments
       IN  /\ hf' = [hf EXCEPT !["serial"][a][ChannelName(c)] =
                        commit(val, hf["serial"][a][ChannelName(c)], start)]
           /\ serial' = [serial EXCEPT
                 !.loop = IF lastL THEN 1 ELSE i + 1,
                 !.channel = IF ~lastL THEN c
                             ELSE IF lastC THEN 1 ELSE c + 1,
                 !.instr = IF lastL /\ lastC
                           THEN (IF lastA THEN 1 ELSE serial.instr + 1)
                           ELSE serial.instr,
                 !.pc = IF lastL /\ lastC
                        THEN (IF lastA THEN "bin" ELSE "open")
                        ELSE "counts",
                 !.q = 1]
    /\ UNCHANGED <<dirs, mk,
                  store_calls, inputs, interp_coords, par, y, loop_futures, locks, maps,
                   files>>

----------------------------------------------------------------------------
(* Binning and output assembly *)

\* observe.py:151 / 210: np.where(reference_time == time)[0][0], counted
\* from 1 here
TimeIndex(reference_time, t) ==
    CHOOSE r \in 1..Len(reference_time) :
        /\ reference_time[r] = t
        /\ \A r2 \in 1..(r - 1) : reference_time[r2] # t

\* base.py:136-139: what is read from the store for dataset dset_name and
\* time index i_time: the row of weights, the unit and the coordinates
read_flattened(store, dset_name, i_time) ==
    [weights     |-> store[dset_name].data[i_time],
     units       |-> store[dset_name].attrs,
     coordinates |-> store["coordinates"].data]

\* np.histogramdd, one axis: the bin (counted from 1) of x among nb equal
\* bins over [lo, hi] (lo < hi); the last bin holds its right edge; 0 for a
\* sample outside the range, which is dropped
BinIndex(x, nb, lo, hi) ==
    IF x < lo \/ x > hi THEN 0
    ELSE IF x = hi THEN nb
    ELSE ((x - lo) * nb) \div (hi - lo) + 1

\* the bin pair of a sample over the first two axes
BinOf(c, bins, bin_range) ==
    <<BinIndex(c[1], bins[1], bin_range[1][1], bin_range[1][2]),
      BinIndex(c[2], bins[2], bin_range[2][1], bin_range[2][2])>>

RECURSIVE BinSum(_, _, _, _, _, _)
\* the sum of the weights of samples 1..k that fall in bin b
BinSum(sample, weights, bins, bin_range, b, k) ==
    IF k = 0 THEN 0
    ELSE BinSum(sample, weights, bins, bin_range, b, k - 1)
           + (IF BinOf(sample[k], bins, bin_range) = b THEN weights[k] ELSE 0)

\* np.histogramdd(sample, bins=bins[:2], range=bin_range[:2],
\* weights=weights): h[ix][iy]
histogramdd(sample, bins, bin_range, weights) ==
    [ix \in 1..bins[1] |-> [iy \in 1..bins[2] |->
        BinSum(sample, weights, bins, bin_range, <<ix, iy>>, Len(sample))]]

\* mutant of generic_2d_histogram_divide: the weighted histogram is divided
\* by the counts as they are
generic_2d_histogram_divide_by_counts(h, hc) == [num |-> h, den |-> hc]

\* base.py:142: h /= np.where(hc == 0, 1, hc), for one bin; the quotient is
\* kept as numerator and denominator
generic_2d_histogram_divide(h, hc) ==
    [num |-> h, den |-> IF hc = 0 THEN 1 ELSE hc]

\* base.py:131-143: turn the flattened quantity into a 2D weighted
\* histogram: the mean weight per bin, transposed (data[iy][ix]), with the
\* unit of the dataset
generic_2d_histogram(store, dset_name, i_time, bins, bin_range) ==
    LET weights     == store[dset_name].data[i_time]
        coordinates == store["coordinates"].data
        ones        == [k \in 1..Len(coordinates) |-> 1]
        hc == histogramdd(coordinates, bins, bin_range, ones)
        h  == histogramdd(coordinates, bins, bin_range, weights)
    IN  [data  |-> [iy \in 1..bins[2] |-> [ix \in 1..bins[1] |->
                       generic_2d_histogram_divide(h[ix][iy], hc[ix][iy])]],
         units |-> store[dset_name].attrs.unit]

RECURSIVE Zeros(_)
\* a string of n zeros
Zeros(n) == IF n <= 0 THEN "" ELSE "0" \o Zeros(n - 1)

\* '{:06d}'.format(i): the decimal digits of i >= 0, padded with zeros on
\* the left to a width of at least 6
Format06d(i) == Zeros(6 - Len(ToString(i))) \o ToString(i)

\* mutant of file_path: the path does not hold the time index
file_path_no_index(a, c, i_time) ==
    InstrumentName(a) \o "/" \o ChannelName(c) \o "/map_t.fits"

\* observe.py:139 / 205: '{}/{}/map_t{:06d}.fits' for an instrument, a
\* channel and a time index (i_time counts from 1 here, the path from 0),
\* relative to savedir
file_path(a, c, i_time) ==
    InstrumentName(a) \o "/" \o ChannelName(c) \o "/map_t"
       \o Format06d(i_time - 1) \o ".fits"

\* observe.py:147 / 214: os.path.dirname of the file path of the channel
dirname(a, c) == InstrumentName(a) \o "/" \o ChannelName(c)

\* os.makedirs(dirname): the directory and the instrument's directory
\* above it
makedirs(ds_, a, c) == ds_ \cup {InstrumentName(a), dirname(a, c)}

\* observe.py:148-149 / 215-216: create the directory of the channel
\* unless it exists
ensure_dirname(ds_, a, c) ==
    IF dirname(a, c) \in ds_ THEN ds_ ELSE makedirs(ds_, a, c)

\* base.py:44: the start time of instrument number a
start_time(a) == 1000 * a

\* mutant of assemble_map: the map is saved without the time stamp
assemble_map_no_stamp(fs, observed_map, filename, date_obs) ==
    [p \in DOMAIN fs \cup {filename} |->
        IF p = filename
        THEN [data |-> observed_map, date_obs |-> 0,
              writes |-> IF p \in DOMAIN fs THEN fs[p].writes + 1 ELSE 1]
        ELSE fs[p]]

\* observe.py:122-125: assemble_map: stamp the map and save it at filename,
\* overwriting a file of that name; writes counts the saves of the file
assemble_map(fs, observed_map, filename, date_obs) ==
    [p \in DOMAIN fs \cup {filename} |->
        IF p = filename
        THEN [data |-> observed_map, date_obs |-> date_obs,
              writes |-> IF p \in DOMAIN fs THEN fs[p].writes + 1 ELSE 1]
        ELSE fs[p]]

\* mutant of SerialBin: saving a map rewrites the unit of its dataset
SerialBin_reunit ==
    /\ serial.pc = "bin"
    /\ LET a     == serial.instr
           c     == serial.channel
           r     == serial.q
           store == hf["serial"][InstrumentName(a)]
           i_t   == TimeIndex(store["time"].data, observing_time[r])
           lastT == r = Len(observing_time)
           lastC == c = NChannels
           lastA == a = NInstruments
       IN  /\ hf' = [hf EXCEPT
                 !["serial"][InstrumentName(a)][ChannelName(c)].attrs =
                    [unit |-> "ct"]]
           /\ dirs' = [dirs EXCEPT !["serial"] =
                 IF r = 1 THEN ensure_dirname(@, a, c) ELSE @]
           /\ files' = [files EXCEPT !["serial"] =
                 assemble_map(files["serial"],
                     read_flattened(store, ChannelName(c), i_t),
                     file_path(a, c, i_t), observing_time[r] + start_time(a))]
           /\ serial' = [serial EXCEPT
                 !.q = IF lastT THEN 1 ELSE r + 1,
                 !.channel = IF ~lastT THEN c
                             ELSE IF lastC THEN 1 ELSE c + 1,
                 !.instr = IF lastT /\ lastC /\ ~lastA THEN a + 1 ELSE a,
                 !.pc = IF lastT /\ lastC /\ lastA THEN "done" ELSE "bin"]
    /\ UNCHANGED <<mk,
                  store_calls, inputs, interp_coords, par, y, loop_futures, locks,
                   maps>>

\* observe.py:145-154: one pass of the innermost loop of the serial
\* bin_detector_counts: on the first pass for a channel create its
\* directory unless it exists; detect channel c at the r-th observing time
\* and save the map
SerialBin ==
    /\ serial.pc = "bin"
    /\ LET a     == serial.instr
           c     == serial.channel
           r     == serial.q
           store == hf["serial"][InstrumentName(a)]
           i_t   == TimeIndex(store["time"].data, observing_time[r])
           lastT == r = Len(observing_time)
           lastC == c = NChannels
           lastA == a = NInstruments
       IN  /\ dirs' = [dirs EXCEPT !["serial"] =
                 IF r = 1 THEN ensure_dirname(@, a, c) ELSE @]
           /\ files' = [files EXCEPT !["serial"] =
                 assemble_map(files["serial"],
                     read_flattened(store, ChannelName(c), i_t),
                     file_path(a, c, i_t), observing_time[r] + start_time(a))]
           /\ serial' = [serial EXCEPT
                 !.q = IF lastT THEN 1 ELSE r + 1,
                 !.channel = IF ~lastT THEN c
                             ELSE IF lastC THEN 1 ELSE c + 1,
                 !.instr = IF lastT /\ lastC /\ ~lastA THEN a + 1 ELSE a,
                 !.pc = IF lastT /\ lastC /\ lastA THEN "done" ELSE "bin"]
    /\ UNCHANGED <<mk,
                  store_calls, inputs, hf, interp_coords, par, y, loop_futures, locks,
                   maps>>

SerialNext ==
    \/ SerialBuild
    \/ SerialOpen
    \/ SerialInterpolateCommit
    \/ SerialCounts
    \/ SerialBin

----------------------------------------------------------------------------
(* Concurrent scheduler: ObserverParallel on a distributed client.  A      *)
(* future is keyed <<a, name, i>>: instrument number, dataset name, loop   *)
(* number.  client.map creates futures "pending"; a worker runs a future   *)
(* whose inputs are finished; a future whose input erred errs without      *)
(* running; distributed.client.wait returns once every future it is given  *)
(* is finished or erred, and raises nothing.                               *)

FutureKeys(a, name) == {<<a, name, i>> : i \in Loops}

Done(status) == status \in {"finished", "error"}

\* mutant of LockName: one lock per dataset of the store
LockName_per_dataset(a, dset_name) ==
    "hdf5_" \o InstrumentName(a) \o "_" \o dset_name

\* base.py:120: distributed.Lock(f'hdf5_{self.name}')
LockName(a, dset_name) == "hdf5_" \o InstrumentName(a)

\* mutant of LockFree: the lock is taken whether or not it is held
LockFree_always(lks, name) == TRUE

\* base.py:121: entering "with lock" needs the named lock not to be held
LockFree(lks, name) == name \notin DOMAIN lks

Acquired(lks, name, holder) ==
    [nm \in DOMAIN lks \cup {name} |-> IF nm = name THEN holder ELSE lks[nm]]

Released(lks, name) == [nm \in DOMAIN lks \ {name} |-> lks[nm]]

\* the futures fs extended by pending futures for the keys ks
Submitted(fs, ks, pending) ==
    [k \in DOMAIN fs \cup ks |-> IF k \in ks THEN pending ELSE fs[k]]

ParallelBuild ==
    /\ par.pc = "build"
    /\ serial.pc \in {"done", "failed"}
    /\ BuildStores("parallel")
    /\ par' = [par EXCEPT !.pc = "instrument"]
    /\ UNCHANGED <<dirs, mk,
                  store_calls, inputs, serial, y, loop_futures, locks, maps, files>>

\* observe.py:169-171: take the next instrument
ParallelInstrument ==
    /\ par.pc = "instrument"
    /\ par' = [par EXCEPT
                 !.pc = IF interpolate_hydro_quantities
                        THEN "submit" ELSE "counts_submit",
                 !.q = 1, !.channel = 1]
    /\ UNCHANGED <<dirs, mk,
                  store_calls, inputs, hf, interp_coords, serial, y, loop_futures, locks,
                   maps, files>>

\* observe.py:174-178: map interpolate over the loops and write_to_hdf5 over
\* the interpolation futures and the start indices
ParallelSubmit ==
    /\ par.pc = "submit"
    /\ LET ks == FutureKeys(par.instr, HydroQuantities[par.q])
       IN  /\ y' = Submitted(y, ks, [status |-> "pending", result |-> <<>>])
           /\ loop_futures' = Submitted(loop_futures, ks, "pending")
    /\ par' = [par EXCEPT !.pc = "wait"]
    /\ UNCHANGED <<dirs, mk,
                  store_calls, inputs, hf, interp_coords, serial, locks, maps, files>>

\* a worker runs instr.interpolate(q, loop, interp_s) of future k
RunInterpolate(k) ==
    /\ k \in DOMAIN y
    /\ y[k].status = "pending"
    /\ k[2] \notin Channels
    /\ LET i   == k[3]
           val == interpolate(k[2], i, loops[i], interp_coords["parallel"][i],
                              observing_time)
       IN  y' = [y EXCEPT ![k] =
                   [status |-> IF val.ok THEN "finished" ELSE "error",
                    result |-> IF val.ok THEN val ELSE <<>>]]
    /\ UNCHANGED <<dirs, mk,
                  store_calls, inputs, hf, interp_coords, serial, par, loop_futures,
                   locks, maps, files>>

\* base.py:120-122: a worker starts write_to_hdf5 of future k, whose value
\* is finished: it takes the lock and opens the store
WriteAcquire(k) ==
    /\ k \in DOMAIN loop_futures
    /\ loop_futures[k] = "pending"
    /\ y[k].status = "finished"
    /\ LockFree(locks, LockName(k[1], k[2]))
    /\ locks' = Acquired(locks, LockName(k[1], k[2]), k)
    /\ loop_futures' = [loop_futures EXCEPT ![k] = "locked"]
    /\ UNCHANGED <<dirs, mk,
                  store_calls, inputs, hf, interp_coords, serial, par, y, maps, files>>

\* mutant of WriteCommitUnit: the write never records the unit
WriteCommitUnit_skip(k) ==
    /\ k \in DOMAIN loop_futures
    /\ loop_futures[k] = "locked"
    /\ loop_futures' = [loop_futures EXCEPT ![k] = "unit"]
    /\ UNCHANGED <<dirs, mk,
                  store_calls, inputs, hf, interp_coords, serial, par, y,
                   locks, maps, files>>

\* base.py:127-128 inside write_to_hdf5
WriteCommitUnit(k) ==
    /\ k \in DOMAIN loop_futures
    /\ loop_futures[k] = "locked"
    /\ hf' = [hf EXCEPT !["parallel"][InstrumentName(k[1])][k[2]] =
                 commit_unit(y[k].result, @)]
    /\ loop_futures' = [loop_futures EXCEPT ![k] = "unit"]
    /\ UNCHANGED <<dirs, mk,
                  store_calls, inputs, interp_coords, serial, par, y, locks, maps, files>>

\* base.py:129 inside write_to_hdf5, at the start index of the loop
WriteCommitData(k) ==
    /\ k \in DOMAIN loop_futures
    /\ loop_futures[k] = "unit"
    /\ hf' = [hf EXCEPT !["parallel"][InstrumentName(k[1])][k[2]] =
                 commit_data(y[k].result, @,
                             start_indices(interp_coords["parallel"])[k[3]])]
    /\ loop_futures' = [loop_futures EXCEPT ![k] = "data"]
    /\ UNCHANGED <<dirs, mk,
                  store_calls, inputs, interp_coords, serial, par, y, locks, maps, files>>

\* base.py:121-123: leaving "with lock": the store is closed, the lock
\* released and the future finished
WriteRelease(k) ==
    /\ k \in DOMAIN loop_futures
    /\ loop_futures[k] = "data"
    /\ locks' = Released(locks, LockName(k[1], k[2]))
    /\ loop_futures' = [loop_futures EXCEPT ![k] = "finished"]
    /\ UNCHANGED <<dirs, mk,
                  store_calls, inputs, hf, interp_coords, serial, par, y, maps, files>>

\* mutant of WriteDependencyError: the failure of one value cancels every
\* write future still pending
WriteDependencyError_cancel_siblings(k) ==
    /\ k \in DOMAIN loop_futures
    /\ loop_futures[k] = "pending"
    /\ y[k].status = "error"
    /\ loop_futures' = [j \in DOMAIN loop_futures |->
                          IF loop_futures[j] = "pending" THEN "error"
                          ELSE loop_futures[j]]
    /\ UNCHANGED <<dirs, mk,
                  store_calls, inputs, hf, interp_coords, serial, par, y,
                   locks, maps, files>>

\* the write future of a value that erred errs without running
WriteDependencyError(k) ==
    /\ k \in DOMAIN loop_futures
    /\ loop_futures[k] = "pending"
    /\ y[k].status = "error"
    /\ loop_futures' = [loop_futures EXCEPT ![k] = "error"]
    /\ UNCHANGED <<dirs, mk,
                  store_calls, inputs, hf, interp_coords, serial, par, y, locks, maps,
                   files>>

\* mutant of WaitReturned: the wait returns as soon as one future is done
WaitReturned_first_completed(ks) == \E k \in ks : Done(loop_futures[k])

\* observe.py:180: distributed.client.wait(loop_futures) has returned
WaitReturned(ks) == \A k \in ks : Done(loop_futures[k])

\* observe.py:180-181, 172: the wait on the quantity's write futures
\* returns; the next quantity is submitted, or after the last one the
\* count phase starts (observe.py:184)
ParallelWait ==
    /\ par.pc = "wait"
    /\ WaitReturned(FutureKeys(par.instr, HydroQuantities[par.q]))
    /\ par' = [par EXCEPT
                 !.q = IF par.q = Len(HydroQuantities) THEN 1 ELSE par.q + 1,
                 !.pc = IF par.q = Len(HydroQuantities)
                        THEN "counts_submit" ELSE "submit"]
    /\ UNCHANGED <<dirs, mk,
                  store_calls, inputs, hf, interp_coords, serial, y, loop_futures, locks,
                   maps, files>>

\* flatten_parallel (modelled from the specification): for the next
\* channel, map the count computation over the loops and write_to_hdf5
\* over its futures and the start indices
ParallelCountsSubmit ==
    /\ par.pc = "counts_submit"
    /\ LET ks == FutureKeys(par.instr, ChannelName(par.channel))
       IN  /\ y' = Submitted(y, ks, [status |-> "pending", result |-> <<>>])
           /\ loop_futures' = Submitted(loop_futures, ks, "pending")
    /\ par' = [par EXCEPT !.pc = "counts_wait"]
    /\ UNCHANGED <<dirs, mk,
                  store_calls, inputs, hf, interp_coords, serial, locks, maps, files>>

\* a worker runs the count computation of future k on the store's columns
\* of loop k[3]
RunCounts(k) ==
    /\ k \in DOMAIN y
    /\ y[k].status = "pending"
    /\ k[2] \in Channels
    /\ LET i  == k[3]
           ns == interp_coords["parallel"]
           c  == CHOOSE c \in 1..NChannels : ChannelName(c) = k[2]
       IN  y' = [y EXCEPT ![k] =
                   [status |-> "finished",
                    result |-> calculate_counts(c,
                                   hf["parallel"][InstrumentName(k[1])],
                                   start_indices(ns)[i], ns[i])]]
    /\ UNCHANGED <<dirs, mk,
                  store_calls, inputs, hf, interp_coords, serial, par, loop_futures,
                   locks, maps, files>>

\* mutant of ParallelCountsWait: flatten_parallel returns its futures
\* without waiting for them
ParallelCountsWait_no_barrier ==
    /\ par.pc = "counts_wait"
    /\ LET lastC == par.channel = NChannels
           lastA == par.instr = NInstruments
       IN  par' = [par EXCEPT
                 !.channel = IF lastC THEN 1 ELSE par.channel + 1,
                 !.instr = IF ~lastC THEN par.instr
                           ELSE IF lastA THEN 1 ELSE par.instr + 1,
                 !.pc = IF ~lastC THEN "counts_submit"
                        ELSE IF lastA THEN "bin_submit" ELSE "instrument"]
    /\ UNCHANGED <<dirs, mk,
                  store_calls, inputs, hf, interp_coords, serial, y,
                   loop_futures, locks, maps, files>>

\* flatten_parallel (modelled from the specification): the wait on the
\* channel's write futures returns; the next channel is taken, after the
\* last channel the next instrument (observe.py:187, 169), after the last
\* instrument flatten_detector_counts returns (observe.py:189)
ParallelCountsWait ==
    /\ par.pc = "counts_wait"
    /\ WaitReturned(FutureKeys(par.instr, ChannelName(par.channel)))
    /\ LET lastC == par.channel = NChannels
           lastA == par.instr = NInstruments
       IN  par' = [par EXCEPT
                 !.channel = IF lastC THEN 1 ELSE par.channel + 1,
                 !.instr = IF ~lastC THEN par.instr
                           ELSE IF lastA THEN 1 ELSE par.instr + 1,
                 !.pc = IF ~lastC THEN "counts_submit"
                        ELSE IF lastA THEN "bin_submit" ELSE "instrument"]
    /\ UNCHANGED <<dirs, mk,
                  store_calls, inputs, hf, interp_coords, serial, y, loop_futures, locks,
                   maps, files>>

\* keys of the detect / assemble_map futures of a channel: one per
\* observing time
MapKeys(a, c) == {<<a, c, r>> : r \in 1..Len(observing_time)}

\* observe.py:206-225: bin_detector_counts for the next channel: read the
\* time axis, create the channel's directory unless it exists, compute the time indices and the file paths, map detect over
\* the time indices and assemble_map over the maps, paths and times
ParallelBinSubmit ==
    /\ par.pc = "bin_submit"
    /\ LET a == par.instr
           c == par.channel
           reference_time == hf["parallel"][InstrumentName(a)]["time"].data
       IN  maps' = [k \in DOMAIN maps \cup MapKeys(a, c) |->
                      IF k \in DOMAIN maps THEN maps[k]
                      ELSE [detect |-> "pending",
                            i_time |-> TimeIndex(reference_time,
                                                 observing_time[k[3]]),
                            date_obs |-> observing_time[k[3]] + start_time(a),
                            data   |-> <<>>,
                            saved  |-> FALSE]]
    /\ dirs' = [dirs EXCEPT !["parallel"] =
                  ensure_dirname(@, par.instr, par.channel)]
    /\ par' = [par EXCEPT !.pc = "bin_wait"]
    /\ UNCHANGED <<mk,
                  store_calls, inputs, hf, interp_coords, serial, y, loop_futures, locks,
                   files>>

\* observe.py:220-223: a worker runs detect of future k, reading the store
RunDetect(k) ==
    /\ k \in DOMAIN maps
    /\ maps[k].detect = "pending"
    /\ maps' = [maps EXCEPT ![k].detect = "finished",
                  ![k].data = read_flattened(
                                 hf["parallel"][InstrumentName(k[1])],
                                 ChannelName(k[2]), maps[k].i_time)]
    /\ UNCHANGED <<dirs, mk,
                  store_calls, inputs, hf, interp_coords, serial, par, y, loop_futures,
                   locks, files>>

\* observe.py:224-225: a worker runs assemble_map of future k on its map,
\* its file path and its time
RunAssemble(k) ==
    /\ k \in DOMAIN maps
    /\ maps[k].detect = "finished"
    /\ ~maps[k].saved
    /\ files' = [files EXCEPT !["parallel"] =
                   assemble_map(@, maps[k].data,
                                file_path(k[1], k[2], maps[k].i_time),
                                maps[k].date_obs)]
    /\ maps' = [maps EXCEPT ![k].saved = TRUE]
    /\ UNCHANGED <<dirs, mk,
                  store_calls, inputs, hf, interp_coords, serial, par, y, loop_futures,
                   locks>>

\* observe.py:226, 211, 206, 228: the wait on the channel's assemble_map
\* futures returns; the next channel, the next instrument, or the end
ParallelBinWait ==
    /\ par.pc = "bin_wait"
    /\ \A k \in MapKeys(par.instr, par.channel) : maps[k].saved
    /\ LET lastC == par.channel = NChannels
           lastA == par.instr = NInstruments
       IN  par' = [par EXCEPT
                 !.channel = IF lastC THEN 1 ELSE par.channel + 1,
                 !.instr = IF lastC /\ ~lastA THEN par.instr + 1
                           ELSE par.instr,
                 !.pc = IF lastC /\ lastA THEN "done" ELSE "bin_submit"]
    /\ UNCHANGED <<dirs, mk,
                  store_calls, inputs, hf, interp_coords, serial, y, loop_futures, locks,
                   maps, files>>

AllKeys ==
    {<<a, nm, i>> : a \in 1..NInstruments,
                    nm \in dset_names \cup Channels, i \in Loops}

AllMapKeys ==
    {<<a, c, r>> : a \in 1..NInstruments, c \in 1..NChannels, r \in 1..2}

ParallelNext ==
    \/ ParallelBuild
    \/ ParallelInstrument
    \/ ParallelSubmit
    \/ ParallelWait
    \/ ParallelCountsSubmit
    \/ ParallelCountsWait
    \/ ParallelBinSubmit
    \/ ParallelBinWait

WorkerNext ==
    \/ \E k \in AllKeys :
          \/ RunInterpolate(k)
          \/ RunCounts(k)
          \/ WriteAcquire(k)
          \/ WriteCommitUnit(k)
          \/ WriteCommitData(k)
          \/ WriteRelease(k)
          \/ WriteDependencyError(k)
    \/ \E k \in AllMapKeys :
          \/ RunDetect(k)
          \/ RunAssemble(k)

Next == SerialNext \/ ParallelNext \/ WorkerNext

Spec == Init /\ [][Next]_vars


----------------------------------------------------------------------------
(* The concurrent observer on its own, with commits that may raise and     *)
(* with fair scheduling: the client thread goes on whenever it can, and    *)
(* the worker pool runs a task that can run whenever there is one.         *)

\* the block of write future k fits its dataset at the start index of its
\* loop
WindowFits(k) ==
    Fits(y[k].result, hf["parallel"][InstrumentName(k[1])][k[2]],
         start_indices(interp_coords["parallel"])[k[3]])

\* mutant of WriteCommitRaise: the lock is kept when the commit raises
WriteCommitRaise_keep_lock(k) ==
    /\ k \in DOMAIN loop_futures
    /\ loop_futures[k] = "unit"
    /\ ~WindowFits(k)
    /\ loop_futures' = [loop_futures EXCEPT ![k] = "error"]
    /\ UNCHANGED <<dirs, mk, store_calls, inputs, hf, interp_coords, serial,
                   par, y, locks, maps, files>>

\* base.py:129 inside write_to_hdf5 (121-123): the block does not fit the
\* dataset and the assignment raises; the exception leaves "with lock",
\* which releases the lock, and the future errs
WriteCommitRaise(k) ==
    /\ k \in DOMAIN loop_futures
    /\ loop_futures[k] = "unit"
    /\ ~WindowFits(k)
    /\ locks' = Released(locks, LockName(k[1], k[2]))
    /\ loop_futures' = [loop_futures EXCEPT ![k] = "error"]
    /\ UNCHANGED <<dirs, mk, store_calls, inputs, hf, interp_coords, serial,
                   par, y, maps, files>>

\* the window of the loop of count future k lies inside the columns of the
\* store's density dataset, which the count computation reads
CountsReadable(k) ==
    LET ns == interp_coords["parallel"]
    IN  start_indices(ns)[k[3]] + ns[k[3]]
           <= hf["parallel"][InstrumentName(k[1])]["density"].shape[2]

\* the count computation of future k cannot read its window and errs
RunCountsRaise(k) ==
    /\ k \in DOMAIN y
    /\ y[k].status = "pending"
    /\ k[2] \in Channels
    /\ ~CountsReadable(k)
    /\ y' = [y EXCEPT ![k] = [status |-> "error", result |-> <<>>]]
    /\ UNCHANGED <<dirs, mk, store_calls, inputs, hf, interp_coords, serial,
                   par, loop_futures, locks, maps, files>>

\* the store files an earlier build_detector_files with resampling step d
\* left in the savedir
StaleStores(d) ==
    [a \in Instruments |->
        build_detector_files(EmptyStore, loops, d, observing_time, Channels)]

\* observe.py:33-38: Observer.__new__ gives the concurrent observer alone
\* (the sequential one does not run); the resampling step is 1 and the
\* observing time starts at 0; the savedir is empty or holds the store
\* files of an earlier build with another resampling step
FairInit ==
    /\ loops \in LoopFields
    /\ ds = 1
    /\ observing_time \in {t \in ObservingTimes : t[1] = 0}
    /\ interpolate_hydro_quantities \in BOOLEAN
    /\ \E stale \in {[a \in Instruments |-> EmptyStore]}
                       \cup {StaleStores(d) : d \in DsValues \ {ds}} :
          hf = [o \in Observers |->
                   IF o = "parallel" THEN stale
                   ELSE [a \in Instruments |-> EmptyStore]]
    /\ interp_coords = [o \in Observers |-> <<>>]
    /\ serial = [pc |-> "done", instr |-> 1, loop |-> 1, q |-> 1,
                 channel |-> 1, start_index |-> 0]
    /\ par = [pc |-> "build", instr |-> 1, q |-> 1, channel |-> 1]
    /\ y = NoFutures
    /\ loop_futures = NoFutures
    /\ locks = <<>>
    /\ maps = NoFutures
    /\ files = [o \in Observers |-> <<>>]
    /\ dirs = [o \in Observers |-> {}]
    /\ mk = NoCallers
    /\ calls = 0
    /\ last_call = NoCall

FairWorkerNext ==
    \/ \E k \in AllKeys :
          \/ RunInterpolate(k)
          \/ k \in DOMAIN y /\ CountsReadable(k) /\ RunCounts(k)
          \/ RunCountsRaise(k)
          \/ WriteAcquire(k)
          \/ WriteCommitUnit(k)
          \/ /\ k \in DOMAIN loop_futures
             /\ loop_futures[k] = "unit"
             /\ WindowFits(k)
             /\ WriteCommitData(k)
          \/ WriteCommitRaise(k)
          \/ WriteRelease(k)
          \/ WriteDependencyError(k)
    \/ \E k \in AllMapKeys :
          \/ RunDetect(k)
          \/ RunAssemble(k)

FairNext == ParallelNext \/ FairWorkerNext

FairSpec ==
    /\ FairInit
    /\ [][FairNext]_vars
    /\ WF_vars(ParallelNext)
    /\ WF_vars(FairWorkerNext)

----------------------------------------------------------------------------
(* The store interface on its own: any sequence of at most MaxCalls calls  *)
(* of build_detector_files (with any ds, observing time and additional     *)
(* fields, on a store file that may exist already) and of commit, on the   *)
(* store of the first instrument.                                          *)

TheStore == hf["serial"][InstrumentName(1)]

\* units of the blocks committed
CommitUnits == {"K", "1 / cm3"}

\* a (rows x n) block of cells v with unit u
Block(rows, n, v, u) ==
    [ok |-> TRUE, value |-> [r \in 1..rows |-> [k \in 1..n |-> v]],
     unit |-> u]

StoreInit ==
    /\ loops \in {[i \in Loops |-> [native |-> 3, time |-> <<0, 2>>]],
                  [i \in Loops |-> [native |-> 2 + (i % 2),
                                    time |-> <<0, 2>>]]}
    /\ ds = 1
    /\ observing_time = <<0>>
    /\ interpolate_hydro_quantities = TRUE
    /\ hf = [o \in Observers |-> [a \in Instruments |-> EmptyStore]]
    /\ interp_coords = [o \in Observers |-> <<>>]
    /\ serial = [pc |-> "build", instr |-> 1, loop |-> 1, q |-> 1,
                 channel |-> 1, start_index |-> 0]
    /\ par = [pc |-> "build", instr |-> 1, q |-> 1, channel |-> 1]
    /\ y = NoFutures
    /\ loop_futures = NoFutures
    /\ locks = <<>>
    /\ maps = NoFutures
    /\ files = [o \in Observers |-> <<>>]
    /\ dirs = [o \in Observers |-> {}]
    /\ mk = NoCallers
    /\ calls = 0
    /\ last_call = NoCall

\* observe.py:83-100: build_detector_files(savedir, d, additional_fields=
\* fields) for an instrument observing at obs
StoreBuild(d, obs, fields) ==
    /\ calls < MaxCalls
    /\ hf' = [hf EXCEPT !["serial"][InstrumentName(1)] =
                 build_detector_files(@, loops, d, obs, fields)]
    /\ calls' = calls + 1
    /\ last_call' = [op |-> "build", before |-> TheStore, d |-> d,
                     obs |-> obs, fields |-> fields]
    /\ UNCHANGED <<dirs, mk,
                  inputs, interp_coords, serial, par, y, loop_futures,
                   locks, maps, files>>

\* base.py:125-129: commit(val, hf[dn], start_index) of a block that fits
StoreCommit(dn, val, start_index) ==
    /\ calls < MaxCalls
    /\ dn \in DOMAIN TheStore
    /\ Fits(val, TheStore[dn], start_index)
    /\ hf' = [hf EXCEPT !["serial"][InstrumentName(1)][dn] =
                 commit(val, @, start_index)]
    /\ calls' = calls + 1
    /\ last_call' = [op |-> "commit", before |-> TheStore, dset |-> dn,
                     y |-> val, start_index |-> start_index]
    /\ UNCHANGED <<dirs, mk,
                  inputs, interp_coords, serial, par, y, loop_futures,
                   locks, maps, files>>

StoreNext ==
    \/ \E d \in DsValues, obs \in ObservingTimes, fields \in SUBSET Channels :
          StoreBuild(d, obs, fields)
    \/ \E dn \in {"density", ChannelName(1)}, d \in DsValues, i \in Loops,
          u \in CommitUnits :
          LET ns == interpolated_loop_coordinates(loops, d)
          IN  /\ dn \in DOMAIN TheStore
              /\ StoreCommit(dn,
                     Block(TheStore[dn].shape[1], ns[i], 100 + calls, u),
                     start_indices(ns)[i])

StoreSpec == StoreInit /\ [][StoreNext]_vars

----------------------------------------------------------------------------
(* Detector array and header: InstrumentBase.make_detector_array and       *)
(* make_fits_header, on the coordinates of a store                         *)

\* base.py:184-189: the field of view is padded by 10 pixels on each side
PadPixels == 10

\* base.py:70-85: total_coordinates: the helioprojective longitude and
\* latitude of a HEEQ position <<x, y, z>>, for an observer far away on the
\* HEEQ x axis and in units of the small angle one length unit subtends
Tx(c) == c[2]

Ty(c) == c[3]

\* the least and the greatest member of a non-empty set of integers
SetMin(S) == CHOOSE v \in S : \A w \in S : v <= w

SetMax(S) == CHOOSE v \in S : \A w \in S : w <= v

\* base.py:182-189: the padding on axis ax: resolution * 10 pixels, times
\* the largest gaussian width of the channels when they have one (<<>>
\* when they have none)
Pad(resolution, gaussian_width, ax) ==
    IF gaussian_width = <<>> THEN resolution[ax] * PadPixels
    ELSE resolution[ax] * gaussian_width[ax] * PadPixels

\* base.py:177-195: _get_fov: the padded bounding box of the coordinates
get_fov(coords, resolution, gaussian_width) ==
    LET xs == {Tx(coords[k]) : k \in 1..Len(coords)}
        ys == {Ty(coords[k]) : k \in 1..Len(coords)}
        pad_x == Pad(resolution, gaussian_width, 1)
        pad_y == Pad(resolution, gaussian_width, 2)
    IN  [min_x |-> SetMin(xs) - pad_x, max_x |-> SetMax(xs) + pad_x,
         min_y |-> SetMin(ys) - pad_y, max_y |-> SetMax(ys) + pad_y]

\* base.py:197-217: make_detector_array: bins and range on the x and y axes
\* (the z axis takes the larger bin count)
make_detector_array(coords, resolution, gaussian_width) ==
    LET fov    == get_fov(coords, resolution, gaussian_width)
        bins_x == Ceil(fov.max_x - fov.min_x, resolution[1])
        bins_y == Ceil(fov.max_y - fov.min_y, resolution[2])
    IN  [bins |-> [x |-> bins_x, y |-> bins_y, z |-> Max(bins_x, bins_y)],
         bin_range |-> [x |-> <<fov.min_x, fov.max_x>>,
                        y |-> <<fov.min_y, fov.max_y>>]]

\* mutant of make_fits_header: the reference pixel is half the bin count
make_fits_header_half_bins(coords, resolution, gaussian_width) ==
    LET fov  == get_fov(coords, resolution, gaussian_width)
        bins == make_detector_array(coords, resolution, gaussian_width).bins
    IN  [crval1 |-> [num |-> 2 * fov.min_x + (fov.max_x - fov.min_x),
                     den |-> 2],
         crval2 |-> [num |-> 2 * fov.min_y + (fov.max_y - fov.min_y),
                     den |-> 2],
         ctype1 |-> "HPLN-TAN",
         ctype2 |-> "HPLT-TAN",
         cdelt1 |-> resolution[1],
         cdelt2 |-> resolution[2],
         crpix1 |-> [num |-> bins.x, den |-> 2],
         crpix2 |-> [num |-> bins.y, den |-> 2]]

\* base.py:145-175: make_fits_header: the coordinate fields of the header;
\* halves are kept as numerator and denominator
make_fits_header(coords, resolution, gaussian_width) ==
    LET fov  == get_fov(coords, resolution, gaussian_width)
        bins == make_detector_array(coords, resolution, gaussian_width).bins
    IN  [crval1 |-> [num |-> 2 * fov.min_x + (fov.max_x - fov.min_x),
                     den |-> 2],
         crval2 |-> [num |-> 2 * fov.min_y + (fov.max_y - fov.min_y),
                     den |-> 2],
         ctype1 |-> "HPLN-TAN",
         ctype2 |-> "HPLT-TAN",
         cdelt1 |-> resolution[1],
         cdelt2 |-> resolution[2],
         crpix1 |-> [num |-> bins.x + 1, den |-> 2],
         crpix2 |-> [num |-> bins.y + 1, den |-> 2]]

\* pixel resolutions <<x, y>> of the instrument
Resolutions == {<<1, 1>>, <<2, 3>>}

\* largest gaussian widths <<x, y>> of the channels, <<>> when they have
\* none
GaussianWidths == {<<>>, <<2, 1>>}

----------------------------------------------------------------------------
(* The binner and the header on their own: a store holding NPoints         *)
(* flattened samples with a row of channel counts, on which                *)
(* generic_2d_histogram is called with any bins and range.                 *)

\* HEEQ positions <<x, y, z>> the flattened samples are drawn from
PointSet == {<<0, 0, 0>>, <<2, 1, 0>>, <<1, 1, 3>>}

\* counts the samples are drawn from
WeightSet == {1, 2}

\* bins and ranges (first two axes) the binner is called with: a range
\* that ends on the outermost samples, one that leaves room around them
\* and one that leaves samples out
BinCounts == {<<1, 1>>, <<2, 2>>, <<3, 2>>}

BinRanges ==
    {<<<<0, 2>>, <<0, 1>>>>, <<<<0, 3>>, <<0, 2>>>>, <<<<1, 2>>, <<0, 1>>>>}

\* the store of an instrument after the count phase: time axis,
\* coordinates and one row of channel counts
FlattenedStore(pts, w) ==
    [dn \in {"time", "coordinates", ChannelName(1)} |->
        IF dn = "time" THEN time_dataset(<<0>>)
        ELSE IF dn = "coordinates" THEN coordinates_dataset(pts)
        ELSE [shape |-> <<1, Len(pts)>>,
              attrs |-> [unit |-> QuantityUnit(dn)],
              data  |-> <<w>>]]

BinInit ==
    /\ loops = [i \in Loops |-> LoopKinds[2]]
    /\ ds = 1
    /\ observing_time = <<0>>
    /\ interpolate_hydro_quantities = TRUE
    /\ \E pts \in [1..NPoints -> PointSet], w \in [1..NPoints -> WeightSet] :
          hf = [o \in Observers |-> [a \in Instruments |->
                   IF o = "serial" /\ a = InstrumentName(1)
                   THEN FlattenedStore(pts, w) ELSE EmptyStore]]
    /\ interp_coords = [o \in Observers |-> <<>>]
    /\ serial = [pc |-> "build", instr |-> 1, loop |-> 1, q |-> 1,
                 channel |-> 1, start_index |-> 0]
    /\ par = [pc |-> "build", instr |-> 1, q |-> 1, channel |-> 1]
    /\ y = NoFutures
    /\ loop_futures = NoFutures
    /\ locks = <<>>
    /\ maps = NoFutures
    /\ files = [o \in Observers |-> <<>>]
    /\ dirs = [o \in Observers |-> {}]
    /\ mk = NoCallers
    /\ calls = 0
    /\ last_call = NoCall

\* base.py:131-143: generic_2d_histogram(counts_file, channel, 0, bins,
\* bin_range) on the store
BinCall(bins, bin_range) ==
    /\ last_call' = [op |-> "generic_2d_histogram", bins |-> bins,
                     bin_range |-> bin_range,
                     result |-> generic_2d_histogram(TheStore, ChannelName(1),
                                                     1, bins, bin_range)]
    /\ UNCHANGED <<dirs, mk,
                  calls, inputs, hf, interp_coords, serial, par, y,
                   loop_futures, locks, maps, files>>

\* base.py:145-175: make_fits_header on the coordinates of the store, for
\* an instrument of the given resolution and gaussian width
HeaderCall(resolution, gaussian_width) ==
    /\ last_call' = [op |-> "make_fits_header", resolution |-> resolution,
                     gaussian_width |-> gaussian_width,
                     result |-> make_fits_header(
                                    TheStore["coordinates"].data, resolution,
                                    gaussian_width)]
    /\ UNCHANGED <<dirs, mk, calls, inputs, hf, interp_coords, serial, par,
                   y, loop_futures, locks, maps, files>>

BinNext ==
    \/ \E bins \in BinCounts, bin_range \in BinRanges :
          BinCall(bins, bin_range)
    \/ \E resolution \in Resolutions, gaussian_width \in GaussianWidths :
          HeaderCall(resolution, gaussian_width)

BinSpec == BinInit /\ [][BinNext]_vars

----------------------------------------------------------------------------
(* The interpolation task on its own: instr.interpolate(q, loop, interp_s) *)
(* for any quantity and loop of the field, and any observing time of the   *)
(* instrument, the empty one (an observing interval shorter than the       *)
(* cadence start) included.                                                *)

\* observing times of the instrument (base.py:40-42, an arange)
InterpTimes == ObservingTimes \cup {<<>>}

InterpInit ==
    /\ loops \in LoopFields
    /\ ds \in DsValues
    /\ observing_time \in InterpTimes
    /\ interpolate_hydro_quantities = TRUE
    /\ hf = [o \in Observers |-> [a \in Instruments |-> EmptyStore]]
    /\ interp_coords = [o \in Observers |-> <<>>]
    /\ serial = [pc |-> "build", instr |-> 1, loop |-> 1, q |-> 1,
                 channel |-> 1, start_index |-> 0]
    /\ par = [pc |-> "build", instr |-> 1, q |-> 1, channel |-> 1]
    /\ y = NoFutures
    /\ loop_futures = NoFutures
    /\ locks = <<>>
    /\ maps = NoFutures
    /\ files = [o \in Observers |-> <<>>]
    /\ dirs = [o \in Observers |-> {}]
    /\ mk = NoCallers
    /\ calls = 0
    /\ last_call = NoCall

\* base.py:98-114: instr.interpolate(q, loops[l], interp_s) with interp_s
\* the resampled coordinate of the loop
InterpCall(q, l) ==
    /\ last_call' = [op |-> "interpolate", q |-> q, l |-> l,
                     n |-> n_interp(loops[l], ds),
                     result |-> interpolate(q, l, loops[l],
                                            n_interp(loops[l], ds),
                                            observing_time)]
    /\ UNCHANGED <<dirs, mk,
                  calls, inputs, hf, interp_coords, serial, par, y,
                   loop_futures, locks, maps, files>>

InterpNext ==
    \/ \E qi \in 1..Len(HydroQuantities), l \in Loops :
          InterpCall(HydroQuantities[qi], l)

InterpSpec == InterpInit /\ [][InterpNext]_vars

----------------------------------------------------------------------------
(* Output directory creation on its own: NCallers callers run              *)
(* observe.py:147-149 (the same lines as 214-216) for the directory of the *)
(* first channel of the first instrument under one savedir, step by step.  *)
(* os.makedirs creates the directory above unless it exists (accepting     *)
(* that it appears meanwhile), then the directory itself with os.mkdir,    *)
(* which raises FileExistsError when it exists, exist_ok being left False. *)

DirInit ==
    /\ loops = [i \in Loops |-> LoopKinds[2]]
    /\ ds = 1
    /\ observing_time = <<0>>
    /\ interpolate_hydro_quantities = TRUE
    /\ hf = [o \in Observers |-> [a \in Instruments |-> EmptyStore]]
    /\ interp_coords = [o \in Observers |-> <<>>]
    /\ serial = [pc |-> "build", instr |-> 1, loop |-> 1, q |-> 1,
                 channel |-> 1, start_index |-> 0]
    /\ par = [pc |-> "build", instr |-> 1, q |-> 1, channel |-> 1]
    /\ y = NoFutures
    /\ loop_futures = NoFutures
    /\ locks = <<>>
    /\ maps = NoFutures
    /\ files = [o \in Observers |-> <<>>]
    /\ \E before \in {{}, {InstrumentName(1)}, makedirs({}, 1, 1)} :
          dirs = [o \in Observers |-> IF o = "serial" THEN before ELSE {}]
    /\ mk = [c \in Callers |-> "exists"]
    /\ calls = 0
    /\ last_call = NoCall

\* observe.py:148: if not os.path.exists(dirname)
DirExists(c) ==
    /\ mk[c] = "exists"
    /\ mk' = [mk EXCEPT ![c] = IF dirname(1, 1) \in dirs["serial"]
                               THEN "done" ELSE "makedirs"]
    /\ UNCHANGED <<dirs, calls, last_call, inputs, hf, interp_coords, serial,
                   par, y, loop_futures, locks, maps, files>>

\* observe.py:149: os.makedirs(dirname), first part: does the directory
\* above exist
DirHeadExists(c) ==
    /\ mk[c] = "makedirs"
    /\ mk' = [mk EXCEPT ![c] = IF InstrumentName(1) \in dirs["serial"]
                               THEN "mkdir" ELSE "mkdir_head"]
    /\ UNCHANGED <<dirs, calls, last_call, inputs, hf, interp_coords, serial,
                   par, y, loop_futures, locks, maps, files>>

\* observe.py:149: os.makedirs(dirname), second part: the directory above
\* is created; os.makedirs ignores that it exists by now
DirMakeHead(c) ==
    /\ mk[c] = "mkdir_head"
    /\ dirs' = [dirs EXCEPT !["serial"] = @ \cup {InstrumentName(1)}]
    /\ mk' = [mk EXCEPT ![c] = "mkdir"]
    /\ UNCHANGED <<calls, last_call, inputs, hf, interp_coords, serial, par,
                   y, loop_futures, locks, maps, files>>

\* observe.py:149: os.makedirs(dirname), last part: os.mkdir(dirname),
\* which raises FileExistsError when the directory exists
DirMakeLeaf(c) ==
    /\ mk[c] = "mkdir"
    /\ IF dirname(1, 1) \in dirs["serial"]
       THEN /\ mk' = [mk EXCEPT ![c] = "FileExistsError"]
            /\ UNCHANGED dirs
       ELSE /\ mk' = [mk EXCEPT ![c] = "done"]
            /\ dirs' = [dirs EXCEPT !["serial"] = makedirs(@, 1, 1)]
    /\ UNCHANGED <<calls, last_call, inputs, hf, interp_coords, serial, par,
                   y, loop_futures, locks, maps, files>>

DirNext ==
    \E c \in Callers :
        DirExists(c) \/ DirHeadExists(c) \/ DirMakeHead(c) \/ DirMakeLeaf(c)

DirSpec == DirInit /\ [][DirNext]_vars


----------------------------------------------------------------------------
(* Reads of the aggregate positions of an instrument of the sequential     *)
(* observer: InstrumentBase.total_coordinates and what is derived from it  *)
(* (_get_fov, make_detector_array, make_fits_header), called before or     *)
(* after build_detector_files.                                             *)

\* base.py:60, called at observe.py:96: instr.counts_file is set for every
\* instrument of observer o by the build_detector_files that sets
\* o._interpolated_loop_coordinates (observe.py:91)
has_counts_file(o) == interp_coords[o] # <<>>

\* a read that raised e
Raised(e) == [ok |-> FALSE, error |-> e]

\* mutant of instr_total_coordinates: an instrument without a counts file
\* has one position, the origin
instr_total_coordinates_default(o, a) ==
    IF ~has_counts_file(o) \/ "coordinates" \notin DOMAIN hf[o][InstrumentName(a)]
    THEN [ok |-> TRUE, value |-> <<<<0, 0, 0>>>>]
    ELSE [ok |-> TRUE, value |-> hf[o][InstrumentName(a)]["coordinates"].data]

\* base.py:70-85: total_coordinates of instrument number a of observer o:
\* AttributeError without a counts file, KeyError when the file (opened
\* read-only) holds no coordinates, else the rows of the coordinates
instr_total_coordinates(o, a) ==
    IF ~has_counts_file(o) THEN Raised("AttributeError")
    ELSE IF "coordinates" \notin DOMAIN hf[o][InstrumentName(a)]
         THEN Raised("KeyError")
         ELSE [ok |-> TRUE,
               value |-> hf[o][InstrumentName(a)]["coordinates"].data]

\* base.py:177-195, 197-217, 145-175: _get_fov, make_detector_array and
\* make_fits_header of the instrument: each reads self.total_coordinates
\* first, and what that raises is raised by them
instr_get_fov(o, a, resolution, gaussian_width) ==
    LET c == instr_total_coordinates(o, a)
    IN  IF c.ok
        THEN [ok |-> TRUE,
              value |-> get_fov(c.value, resolution, gaussian_width)]
        ELSE c

instr_make_detector_array(o, a, resolution, gaussian_width) ==
    LET c == instr_total_coordinates(o, a)
    IN  IF c.ok
        THEN [ok |-> TRUE,
              value |-> make_detector_array(c.value, resolution,
                                            gaussian_width)]
        ELSE c

instr_make_fits_header(o, a, resolution, gaussian_width) ==
    LET c == instr_total_coordinates(o, a)
    IN  IF c.ok
        THEN [ok |-> TRUE,
              value |-> make_fits_header(c.value, resolution, gaussian_width)]
        ELSE c

\* the reads of the aggregate positions
ReadOps ==
    {"total_coordinates", "_get_fov", "make_detector_array",
     "make_fits_header"}

ReadInit ==
    /\ loops \in LoopFields
    /\ ds \in DsValues
    /\ observing_time \in ObservingTimes
    /\ interpolate_hydro_quantities = TRUE
    /\ hf = [o \in Observers |-> [a \in Instruments |-> EmptyStore]]
    /\ interp_coords = [o \in Observers |-> <<>>]
    /\ serial = [pc |-> "build", instr |-> 1, loop |-> 1, q |-> 1,
                 channel |-> 1, start_index |-> 0]
    /\ par = [pc |-> "build", instr |-> 1, q |-> 1, channel |-> 1]
    /\ y = NoFutures
    /\ loop_futures = NoFutures
    /\ locks = <<>>
    /\ maps = NoFutures
    /\ files = [o \in Observers |-> <<>>]
    /\ dirs = [o \in Observers |-> {}]
    /\ mk = NoCallers
    /\ calls = 0
    /\ last_call = NoCall

\* base.py:70-85: instr.total_coordinates of instrument number a
ReadTotalCoordinates(a) ==
    /\ last_call' = [op |-> "total_coordinates", a |-> a,
                     result |-> instr_total_coordinates("serial", a)]
    /\ UNCHANGED <<dirs, mk, calls, inputs, hf, interp_coords, serial, par,
                   y, loop_futures, locks, maps, files>>

\* base.py:177-195: instr._get_fov(channel)
ReadFov(a, resolution, gaussian_width) ==
    /\ last_call' = [op |-> "_get_fov", a |-> a,
                     resolution |-> resolution,
                     gaussian_width |-> gaussian_width,
                     result |-> instr_get_fov("serial", a, resolution,
                                              gaussian_width)]
    /\ UNCHANGED <<dirs, mk, calls, inputs, hf, interp_coords, serial, par,
                   y, loop_futures, locks, maps, files>>

\* base.py:197-217: instr.make_detector_array(field)
ReadDetectorArray(a, resolution, gaussian_width) ==
    /\ last_call' = [op |-> "make_detector_array", a |-> a,
                     resolution |-> resolution,
                     gaussian_width |-> gaussian_width,
                     result |-> instr_make_detector_array(
                                    "serial", a, resolution, gaussian_width)]
    /\ UNCHANGED <<dirs, mk, calls, inputs, hf, interp_coords, serial, par,
                   y, loop_futures, locks, maps, files>>

\* base.py:145-175: instr.make_fits_header(field, channel)
ReadHeader(a, resolution, gaussian_width) ==
    /\ last_call' = [op |-> "make_fits_header", a |-> a,
                     resolution |-> resolution,
                     gaussian_width |-> gaussian_width,
                     result |-> instr_make_fits_header(
                                    "serial", a, resolution, gaussian_width)]
    /\ UNCHANGED <<dirs, mk, calls, inputs, hf, interp_coords, serial, par,
                   y, loop_futures, locks, maps, files>>

ReadNext ==
    \/ SerialBuild
    \/ \E a \in 1..NInstruments : ReadTotalCoordinates(a)
    \/ \E a \in 1..NInstruments, resolution \in Resolutions,
          gaussian_width \in GaussianWidths :
          \/ ReadFov(a, resolution, gaussian_width)
          \/ ReadDetectorArray(a, resolution, gaussian_width)
          \/ ReadHeader(a, resolution, gaussian_width)

ReadSpec == ReadInit /\ [][ReadNext]_vars


----------------------------------------------------------------------------
(* Construction of the loops of a field and the interpolation tasks        *)
(* dispatched for them: Loop.__init__ on a coordinate, a field strength    *)
(* and the model results of the loop, then InstrumentBase.interpolate.     *)

\* numbers of positions of the arrays a loop is built from
NativeCounts == {2, 3}

\* loop.time grids of the model results
LoopTimes == {<<0>>, <<0, 2>>}

\* loop.py:42-50: Loop.__init__ on a coordinate of coordinate_n positions,
\* a field strength of field_strength_n positions and model results whose
\* quantity arrays have results.width positions: ValueError when
\* coordinate and field strength differ in shape; the quantity arrays stay
\* in the results file and are read by the properties (loop.py:138-225)
Loop_init(coordinate_n, field_strength_n, results) ==
    IF coordinate_n # field_strength_n
    THEN Raised("ValueError")
    ELSE [ok |-> TRUE,
          value |-> [native |-> coordinate_n, time |-> results.time,
                     width |-> results.width]]

\* base.py:98-114: interpolate on a loop whose quantity arrays have
\* loop.width positions: interp1d (base.py:104) raises ValueError when the
\* array does not have as many positions as the field-aligned coordinate
interpolate_arrays(q, l, loop, n, times) ==
    IF loop.width # Len(field_aligned_coordinate(loop))
    THEN Raised("ValueError")
    ELSE interpolate(q, l, loop, n, times)

LoopInit ==
    /\ loops = <<>>
    /\ ds \in DsValues
    /\ observing_time \in ObservingTimes
    /\ interpolate_hydro_quantities = TRUE
    /\ hf = [o \in Observers |-> [a \in Instruments |-> EmptyStore]]
    /\ interp_coords = [o \in Observers |-> <<>>]
    /\ serial = [pc |-> "build", instr |-> 1, loop |-> 1, q |-> 1,
                 channel |-> 1, start_index |-> 0]
    /\ par = [pc |-> "build", instr |-> 1, q |-> 1, channel |-> 1]
    /\ y = NoFutures
    /\ loop_futures = NoFutures
    /\ locks = <<>>
    /\ maps = NoFutures
    /\ files = [o \in Observers |-> <<>>]
    /\ dirs = [o \in Observers |-> {}]
    /\ mk = NoCallers
    /\ calls = 0
    /\ last_call = NoCall

\* loop.py:42-50: a loop is constructed and, unless the constructor
\* raises, joins field.loops
LoopConstruct(coordinate_n, field_strength_n, results) ==
    LET made == Loop_init(coordinate_n, field_strength_n, results)
    IN  /\ Len(loops) < NLoops
        /\ loops' = IF made.ok THEN Append(loops, made.value) ELSE loops
        /\ last_call' = [op |-> "Loop", coordinate_n |-> coordinate_n,
                         field_strength_n |-> field_strength_n,
                         results |-> results, ok |-> made.ok]
        /\ UNCHANGED <<dirs, mk, calls, ds, observing_time,
                       interpolate_hydro_quantities, hf, interp_coords,
                       serial, par, y, loop_futures, locks, maps, files>>

\* observe.py:116 and 176: the interpolation of quantity q is dispatched
\* for loop number l of field.loops
LoopDispatch(q, l) ==
    /\ l \in DOMAIN loops
    /\ last_call' = [op |-> "interpolate", q |-> q, l |-> l,
                     ok |-> interpolate_arrays(
                                q, l, loops[l], n_interp(loops[l], ds),
                                observing_time).ok]
    /\ UNCHANGED <<dirs, mk, calls, inputs, hf, interp_coords, serial, par,
                   y, loop_futures, locks, maps, files>>

LoopNext ==
    \/ \E coordinate_n \in NativeCounts, field_strength_n \in NativeCounts,
          tm \in LoopTimes, width \in NativeCounts :
          LoopConstruct(coordinate_n, field_strength_n,
                        [time |-> tm, width |-> width])
    \/ \E qi \in 1..Len(HydroQuantities), l \in 1..NLoops :
          LoopDispatch(HydroQuantities[qi], l)

LoopSpec == LoopInit /\ [][LoopNext]_vars

----------------------------------------------------------------------------
(* Properties of the store interface (checked under StoreSpec) *)

\* the datasets of a store that hold a quantity: all but the two axes
QuantityDatasets(store) == DOMAIN store \ {"time", "coordinates"}

HasUnit(dset) == "unit" \in DOMAIN dset.attrs

\* the last call was a commit to a dataset that had a unit recorded, of a
\* block with another unit
ConflictingCommit ==
    /\ last_call.op = "commit"
    /\ HasUnit(last_call.before[last_call.dset])
    /\ last_call.before[last_call.dset].attrs.unit # last_call.y.unit

\* C8 (as claimed): a commit to a dataset without a unit records the unit of
\* the written values, and a commit whose unit differs from the recorded
\* unit stores nothing: the dataset's cells are those before the call
C8_ConflictingUnitRejected ==
    /\ (last_call.op = "commit" /\ ~HasUnit(last_call.before[last_call.dset]))
          => TheStore[last_call.dset].attrs = [unit |-> last_call.y.unit]
    /\ ConflictingCommit
          => TheStore[last_call.dset].data
                = last_call.before[last_call.dset].data

\* C9: schema creation is idempotent.  After a build_detector_files call
\* every dataset the store held before the call is unchanged (shape, cells,
\* unit), the datasets added are exactly the missing ones of the schema, and
\* calling it again with the same arguments changes nothing.
C9_SchemaCreationIdempotent ==
    last_call.op = "build" =>
        /\ \A dn \in DOMAIN last_call.before : TheStore[dn] = last_call.before[dn]
        /\ DOMAIN TheStore =
              DOMAIN last_call.before \cup {"time", "coordinates"}
                 \cup dset_names \cup last_call.fields
        /\ build_detector_files(TheStore, loops, last_call.d, last_call.obs,
                                last_call.fields) = TheStore

\* a dataset holds committed cells and a unit
Populated(dset) ==
    /\ HasUnit(dset)
    /\ \E r \in 1..dset.shape[1], c \in 1..dset.shape[2] : dset.data[r][c] # 0

\* C9 witness: schema creation was invoked on a store that already held the
\* axes and a populated quantity dataset, with another ds than the one the
\* store was built with
C9_Witness ==
    /\ last_call.op = "build"
    /\ {"time", "coordinates", "density"} \subseteq DOMAIN last_call.before
    /\ Populated(last_call.before["density"])
    /\ Len(total_coordinates(interpolated_loop_coordinates(loops, last_call.d)))
          # last_call.before["coordinates"].shape[1]

\* C10 (as claimed): every quantity dataset of a store has T rows and N
\* columns, T the length of the store's time axis and N the row count of
\* its coordinates array
C10_DatasetsShareAxes ==
    \A dn \in QuantityDatasets(TheStore) :
        TheStore[dn].shape =
            <<TheStore["time"].shape[1], TheStore["coordinates"].shape[1]>>

----------------------------------------------------------------------------
(* Properties of the schedulers (checked under Spec) *)

\* observer o has run build_detector_files
Built(o) == interp_coords[o] # <<>>

\* the columns (counted from 0) of the window that starts at start and
\* holds n columns
Window(start, n) == start..(start + n - 1)

\* C1: the per-loop column windows of both schedulers partition [0, N) in
\* loop order, without gap or overlap, N being the sum of the resampled
\* counts and the column count of every quantity dataset and the row count
\* of the coordinates array the build allocated.  The concurrent scheduler
\* takes the windows from start_indices, the sequential one from its
\* running start_index.
C1_WindowsPartition ==
    \A o \in Observers : Built(o) =>
        LET ns == interp_coords[o]
            N  == SumSeq(ns)
            st == start_indices(ns)
        IN  /\ st[1] = 0
            /\ \A i \in 1..(NLoops - 1) : st[i + 1] = st[i] + ns[i]
            /\ \A i, j \in Loops :
                  i # j => Window(st[i], ns[i]) \cap Window(st[j], ns[j]) = {}
            /\ UNION {Window(st[i], ns[i]) : i \in Loops} = 0..(N - 1)
            /\ \A a \in Instruments :
                  /\ hf[o][a]["coordinates"].shape[1] = N
                  /\ \A dn \in QuantityDatasets(hf[o][a]) :
                        hf[o][a][dn].shape[2] = N
            /\ (o = "serial" /\ serial.pc = "hydro") =>
                  /\ serial.start_index = SumSeq(SubSeq(ns, 1, serial.loop - 1))
                  /\ serial.start_index + ns[serial.loop] <= N

\* C1 witness: the concurrent scheduler has written the window of the last
\* loop of a quantity, a window that starts after a first window of more
\* than one column
C1_Witness ==
    /\ <<1, "density", NLoops>> \in DOMAIN loop_futures
    /\ loop_futures[<<1, "density", NLoops>>] = "finished"
    /\ interp_coords["parallel"][1] > 1
    /\ serial.pc = "done"

\* the cells of dataset dset in the window starting at start are the cells
\* of block val, in every row
WindowHolds(dset, val, start) ==
    /\ Len(val.value) = dset.shape[1]
    /\ \A r \in 1..Len(val.value), k \in 1..Len(val.value[1]) :
          dset.data[r][start + k] = val.value[r][k]

\* the wait of the concurrent scheduler on the write futures of quantity
\* number qi of instrument number a has returned
BarrierReturned(a, qi) ==
    /\ FutureKeys(a, HydroQuantities[qi]) \subseteq DOMAIN loop_futures
    /\ ~(par.pc = "wait" /\ par.instr = a /\ par.q = qi)

\* C2: in the concurrent scheduler, once the wait on a quantity's write
\* futures has returned and none of them erred, the quantity's dataset
\* holds in every loop's window exactly that loop's interpolated values,
\* and the windows cover every column of the dataset
C2_WindowsHoldCurveValues ==
    \A a \in 1..NInstruments, qi \in 1..Len(HydroQuantities) :
        LET q  == HydroQuantities[qi]
            ns == interp_coords["parallel"]
            st == start_indices(ns)
        IN  (/\ BarrierReturned(a, qi)
             /\ \A k \in FutureKeys(a, q) : loop_futures[k] = "finished")
            => /\ \A i \in Loops :
                     WindowHolds(hf["parallel"][InstrumentName(a)][q],
                         interpolate(q, i, loops[i], ns[i], observing_time),
                         st[i])
               /\ hf["parallel"][InstrumentName(a)][q].shape[2] = SumSeq(ns)

\* C2 witness: the wait on the density futures has returned, none erred,
\* and the two first loops differ in their sample counts
C2_Witness ==
    /\ BarrierReturned(1, 6)
    /\ \A k \in FutureKeys(1, "density") : loop_futures[k] = "finished"
    /\ interp_coords["parallel"][1] # interp_coords["parallel"][2]
    /\ Len(observing_time) = 2

\* both observers have left flatten_detector_counts
FlattenEnded ==
    /\ serial.pc \in {"bin", "done", "failed"}
    /\ par.pc \in {"bin_submit", "bin_wait", "done"}

StoresAgree ==
    \A a \in Instruments :
        /\ QuantityDatasets(hf["serial"][a]) = QuantityDatasets(hf["parallel"][a])
        /\ \A dn \in QuantityDatasets(hf["serial"][a]) :
              hf["serial"][a][dn] = hf["parallel"][a][dn]

InCriticalSection(k) ==
    /\ k \in DOMAIN loop_futures
    /\ loop_futures[k] \in {"locked", "unit", "data"}

\* C4: no two write futures for the same dataset of the same store are
\* between lock acquisition and lock release at once, and a future in its
\* critical section (unit check-and-set included) holds its lock
C4_WritesMutuallyExcluded ==
    \A k1 \in DOMAIN loop_futures :
        InCriticalSection(k1) =>
           /\ LockName(k1[1], k1[2]) \in DOMAIN locks
           /\ locks[LockName(k1[1], k1[2])] = k1
           /\ \A k2 \in DOMAIN loop_futures :
                 (k2 # k1 /\ InCriticalSection(k2))
                    => ~(k1[1] = k2[1] /\ k1[2] = k2[2])

\* C4 witness: a write future is about to check and set the unit of a
\* dataset while another write future for that dataset is ready to run
C4_Witness ==
    \E k1, k2 \in DOMAIN loop_futures :
        /\ k1 # k2 /\ k1[1] = k2[1] /\ k1[2] = k2[2]
        /\ loop_futures[k1] = "locked"
        /\ ~HasUnit(hf["parallel"][InstrumentName(k1[1])][k1[2]])
        /\ loop_futures[k2] = "pending"
        /\ y[k2].status = "finished"

HydroWritesCompleted(o, a) ==
    \A qi \in 1..Len(HydroQuantities), i \in Loops :
        LET q   == HydroQuantities[qi]
            ns  == interp_coords[o]
            val == interpolate(q, i, loops[i], ns[i], observing_time)
        IN  /\ val.ok
            /\ WindowHolds(hf[o][InstrumentName(a)][q], val,
                           start_indices(ns)[i])

\* C6 (as claimed): when the hydrodynamic quantities are interpolated, the
\* count phase of an instrument starts, in either scheduler, only after
\* every interpolation write for every quantity and loop of the instrument
\* has completed, so that it reads no unwritten column
C6_CountsAfterHydroWrites ==
    interpolate_hydro_quantities =>
        /\ serial.pc = "counts" => HydroWritesCompleted("serial", serial.instr)
        /\ par.pc \in {"counts_submit", "counts_wait"} =>
              /\ HydroWritesCompleted("parallel", par.instr)
              /\ \A qi \in 1..Len(HydroQuantities) :
                    \A k \in FutureKeys(par.instr, HydroQuantities[qi]) :
                        loop_futures[k] = "finished"

C13_FailureSurfacedAtBarrier ==
    \A a \in 1..NInstruments, qi \in 1..Len(HydroQuantities) :
        BarrierReturned(a, qi) =>
            \A k \in FutureKeys(a, HydroQuantities[qi]) :
                loop_futures[k] # "error"

\* no cell of the window of n columns starting at start was written
WindowUnwritten(dset, start, n) ==
    \A r \in 1..dset.shape[1], k \in 1..n :
        dset.data[r][start + k] = create_dataset(dset.shape).data[r][start + k]

\* the interpolation of a loop returns: the assertion of the static case
\* passes, and the evolving case asserts nothing
InterpolateSucceeds(loop, times) ==
    Len(loop.time) = 1 => StaticTimesAgree(loop, times)

\* the writes of quantity number qi of instrument number a are isolated
\* from the failures among them: every loop whose interpolation succeeds
\* has its window holding exactly its values, and the window of a loop
\* whose interpolation failed is unwritten
WindowsIsolated(a, qi) ==
    \A i \in Loops :
        LET q    == HydroQuantities[qi]
            ns   == interp_coords["parallel"]
            val  == interpolate(q, i, loops[i], ns[i], observing_time)
            dset == hf["parallel"][InstrumentName(a)][q]
        IN  IF InterpolateSucceeds(loops[i], observing_time)
            THEN WindowHolds(dset, val, start_indices(ns)[i])
            ELSE WindowUnwritten(dset, start_indices(ns)[i], ns[i])

\* C14: when tasks of a quantity fail in the concurrent phase, only they
\* and the writes depending on them are aborted.  Once the wait on a
\* quantity has returned, the write of every loop whose interpolation
\* succeeds is finished and only the writes of the loops whose
\* interpolation failed have erred; when the interpolation phase of an
\* instrument has ended, and still when the run has ended, the windows of
\* the succeeding loops hold exactly their values and the windows of the
\* failed loops are unwritten
C14_FailureIsolated ==
    /\ \A a \in 1..NInstruments, qi \in 1..Len(HydroQuantities) :
          BarrierReturned(a, qi) =>
             \A i \in Loops :
                loop_futures[<<a, HydroQuantities[qi], i>>] =
                   IF InterpolateSucceeds(loops[i], observing_time)
                   THEN "finished" ELSE "error"
    /\ (interpolate_hydro_quantities /\ par.pc = "counts_submit"
          /\ par.channel = 1)
          => \A qi \in 1..Len(HydroQuantities) :
                WindowsIsolated(par.instr, qi)
    /\ (interpolate_hydro_quantities /\ par.pc = "done")
          => \A a \in 1..NInstruments, qi \in 1..Len(HydroQuantities) :
                WindowsIsolated(a, qi)

\* C14 witness: the wait on the density futures has returned, with the
\* write of one loop erred and the write of another finished
C14_Witness ==
    /\ BarrierReturned(1, 6)
    /\ \E k1, k2 \in FutureKeys(1, "density") :
          /\ loop_futures[k1] = "error"
          /\ loop_futures[k2] = "finished"
          /\ Populated(hf["parallel"][InstrumentName(1)]["density"])

\* C15: the sequential scheduler processes loops one at a time in input
\* order.  When it is about to interpolate quantity number q of loop i at
\* start_index: start_index is the sum of the sample counts of the loops
\* before i; every quantity of every loop before i, and the quantities
\* before q of loop i, are committed in their windows; no later quantity of
\* loop i and no quantity of a later loop has been written
C15_SerialLoopOrder ==
    serial.pc = "hydro" =>
        LET ns == interp_coords["serial"]
        IN  /\ serial.start_index = SumSeq(SubSeq(ns, 1, serial.loop - 1))
            /\ \A i \in Loops, qi \in 1..Len(HydroQuantities) :
                  LET q    == HydroQuantities[qi]
                      dset == hf["serial"][InstrumentName(serial.instr)][q]
                      val  == interpolate(q, i, loops[i], ns[i],
                                          observing_time)
                      st   == SumSeq(SubSeq(ns, 1, i - 1))
                  IN  IF i < serial.loop \/ (i = serial.loop /\ qi < serial.q)
                      THEN val.ok /\ WindowHolds(dset, val, st)
                      ELSE WindowUnwritten(dset, st, ns[i])

\* C15 witness: the sequential scheduler is in the middle of the second
\* loop, the first loop's quantities all committed
C15_Witness ==
    /\ serial.pc = "hydro"
    /\ serial.loop = 2
    /\ serial.q = 3
    /\ serial.start_index > 0
    /\ Populated(hf["serial"][InstrumentName(serial.instr)]["density"])

\* the (instrument, channel, time index) triples of a run
ImageTriples ==
    {<<a, c, i>> : a \in 1..NInstruments, c \in 1..NChannels,
                   i \in 1..Len(observing_time)}

\* observer o has run bin_detector_counts to its end
BinEnded(o) == IF o = "serial" THEN serial.pc = "done" ELSE par.pc = "done"

\* C16: within one run every (instrument, channel, timestep) image is
\* persisted exactly once, at {instrument}/{channel}/map_t{index:06d}:
\* distinct triples have distinct paths, every file is the image of one
\* triple, it holds the store row of the index in its path, it was written
\* once, and at the end of the run every triple has its file
C16_ImagesPersistedOnce ==
    LET path  == [t \in ImageTriples |-> file_path(t[1], t[2], t[3])]
        paths == {path[t] : t \in ImageTriples}
    IN  /\ Cardinality(paths) = Cardinality(ImageTriples)
        /\ \A o \in Observers :
              /\ DOMAIN files[o] \subseteq paths
              /\ \A p \in DOMAIN files[o] : files[o][p].writes = 1
              /\ \A t \in ImageTriples :
                    /\ path[t] \in DOMAIN files[o] =>
                          files[o][path[t]].data.weights =
                             hf[o][InstrumentName(t[1])][ChannelName(t[2])]
                                .data[t[3]]
                    /\ BinEnded(o) => path[t] \in DOMAIN files[o]

\* C16 witness: both runs ended with more than one timestep persisted
C16_Witness ==
    /\ BinEnded("serial")
    /\ BinEnded("parallel")
    /\ Len(observing_time) > 1
    /\ file_path(1, 1, 2) \in DOMAIN files["parallel"]
    /\ file_path(1, 1, 2) = "instr1/channel1/map_t000001.fits"

\* observer o is in its bin-and-persist phase
Binning(o) ==
    IF o = "serial" THEN serial.pc = "bin"
    ELSE par.pc \in {"bin_submit", "bin_wait"}

C20_TimestampOfTimestep ==
    /\ \A o \in Observers, t \in ImageTriples :
          LET p == file_path(t[1], t[2], t[3])
          IN  p \in DOMAIN files[o] =>
                 files[o][p].date_obs =
                    start_time(t[1])
                       + hf[o][InstrumentName(t[1])]["time"].data[t[3]]
    /\ \A k \in DOMAIN maps :
          LET store == hf["parallel"][InstrumentName(k[1])]
          IN  /\ maps[k].date_obs
                    = start_time(k[1]) + store["time"].data[maps[k].i_time]
              /\ maps[k].detect = "finished" =>
                    maps[k].data.weights
                       = store[ChannelName(k[2])].data[maps[k].i_time]
              /\ maps[k].saved =>
                    files["parallel"][file_path(k[1], k[2], maps[k].i_time)]
                       = [data |-> maps[k].data, date_obs |-> maps[k].date_obs,
                          writes |-> 1]

\* C20 witness: the concurrent scheduler saved the image of the second
\* timestep before the image of the first, and the sequential run is done
C20_Witness ==
    /\ Len(observing_time) = 2
    /\ BinEnded("serial")
    /\ <<1, 1, 1>> \in DOMAIN maps
    /\ ~maps[<<1, 1, 1>>].saved
    /\ maps[<<1, 1, 2>>].saved
    /\ files["parallel"][file_path(1, 1, 2)].date_obs = start_time(1) + 1

----------------------------------------------------------------------------
(* Properties of the binner and the header (checked under BinSpec) *)

RECURSIVE SumOver(_, _)
\* the sum of w[k] over the indices k of S
SumOver(S, w) ==
    IF S = {} THEN 0
    ELSE LET k == CHOOSE k \in S : TRUE
         IN  w[k] + SumOver(S \ {k}, w)

\* the samples of the store that a call of the binner puts in bin <<ix, iy>>
SamplesIn(call, ix, iy) ==
    {k \in 1..NPoints :
        BinOf(TheStore["coordinates"].data[k], call.bins, call.bin_range)
           = <<ix, iy>>}

\* the range of a call covers every position of the store
Covers(call) ==
    \A k \in 1..NPoints, ax \in 1..2 :
        /\ call.bin_range[ax][1] <= TheStore["coordinates"].data[k][ax]
        /\ TheStore["coordinates"].data[k][ax] <= call.bin_range[ax][2]

\* C11: the binner returns, for every bin, the weighted sum over the sample
\* count when the count is positive and 0 when it is zero; no bin is
\* undefined (no zero denominator); with all weights 1 and a range covering
\* all positions every occupied bin equals 1 and every empty bin 0
C11_BinnerMeanOrZero ==
    last_call.op = "generic_2d_histogram" =>
        \A iy \in 1..last_call.bins[2], ix \in 1..last_call.bins[1] :
            LET cell == last_call.result.data[iy][ix]
                S    == SamplesIn(last_call, ix, iy)
                w    == TheStore[ChannelName(1)].data[1]
            IN  /\ cell.den # 0
                /\ S # {} => /\ cell.num = SumOver(S, w)
                             /\ cell.den = Cardinality(S)
                /\ S = {} => cell.num = 0
                /\ (Covers(last_call) /\ \A k \in 1..NPoints : w[k] = 1)
                      => IF S # {} THEN cell.num = cell.den ELSE cell.num = 0

\* C11 witness: a call with all weights 1 and a covering range that gives
\* an empty bin and a bin holding more than one sample
C11_Witness ==
    /\ last_call.op = "generic_2d_histogram"
    /\ Covers(last_call)
    /\ \A k \in 1..NPoints : TheStore[ChannelName(1)].data[1][k] = 1
    /\ \E iy \in 1..last_call.bins[2], ix \in 1..last_call.bins[1] :
          SamplesIn(last_call, ix, iy) = {}
    /\ \E iy \in 1..last_call.bins[2], ix \in 1..last_call.bins[1] :
          Cardinality(SamplesIn(last_call, ix, iy)) > 1

\* the number of bins on each axis for a call of make_fits_header: the
\* ceiling of the padded extent of the coordinates over the resolution
BinCount(call) ==
    LET coords == TheStore["coordinates"].data
        xs == {Tx(coords[k]) : k \in 1..Len(coords)}
        ys == {Ty(coords[k]) : k \in 1..Len(coords)}
        wx == IF call.gaussian_width = <<>> THEN 1
              ELSE call.gaussian_width[1]
        wy == IF call.gaussian_width = <<>> THEN 1
              ELSE call.gaussian_width[2]
        ex == SetMax(xs) - SetMin(xs) + 2 * PadPixels * wx * call.resolution[1]
        ey == SetMax(ys) - SetMin(ys) + 2 * PadPixels * wy * call.resolution[2]
    IN  <<(ex + call.resolution[1] - 1) \div call.resolution[1],
          (ey + call.resolution[2] - 1) \div call.resolution[2]>>

\* C19: the header's reference pixel on each axis is (bin_count + 1)/2,
\* for odd and for even bin counts, bin_count being the number of bins the
\* detector array is built with
C19_ReferencePixel ==
    last_call.op = "make_fits_header" =>
        LET bc   == BinCount(last_call)
            bins == make_detector_array(TheStore["coordinates"].data,
                        last_call.resolution, last_call.gaussian_width).bins
        IN  /\ bins.x = bc[1]
            /\ bins.y = bc[2]
            /\ 2 * last_call.result.crpix1.num
                  = (bc[1] + 1) * last_call.result.crpix1.den
            /\ 2 * last_call.result.crpix2.num
                  = (bc[2] + 1) * last_call.result.crpix2.den

\* C19 witness: a header for an odd bin count on one axis and an even bin
\* count on the other
C19_Witness ==
    /\ last_call.op = "make_fits_header"
    /\ BinCount(last_call)[1] % 2 = 1
    /\ BinCount(last_call)[2] % 2 = 0
    /\ last_call.result.crpix1.num = BinCount(last_call)[1] + 1

----------------------------------------------------------------------------
(* Properties of the interpolation task (checked under InterpSpec) *)

\* the last call interpolated a loop with exactly one time sample
StaticCall ==
    /\ last_call.op = "interpolate"
    /\ Len(loops[last_call.l].time) = 1

\* C12 (as claimed): for a loop with exactly one time sample, when the
\* observing time has length 1 and the same value the result is the row of
\* spatially interpolated samples, unchanged; otherwise (another value, or
\* a length other than 1) the task fails and returns no array
C12_StaticCaseExact ==
    StaticCall =>
        LET loop == loops[last_call.l]
        IN  IF observing_time = loop.time
            THEN /\ last_call.result.ok
                 /\ last_call.result.value =
                       << [k \in 1..last_call.n |->
                             SpatialInterp(loop, last_call.l, last_call.q, 1,
                                           last_call.n, k)] >>
            ELSE ~last_call.result.ok

----------------------------------------------------------------------------
(* Properties of the directory creation (checked under DirSpec) *)

\* C17 (as claimed): output directory creation is safe under concurrent
\* callers: in every interleaving of their exists-checks and create steps
\* no caller fails on a directory that exists already, and a caller that
\* is done finds the directory in place
C17_DirectoryCreationSafe ==
    \A c \in Callers :
        /\ mk[c] # "FileExistsError"
        /\ mk[c] = "done" => dirname(1, 1) \in dirs["serial"]

----------------------------------------------------------------------------
(* The unit of a dataset (checked under Spec) *)

\* the writers of the concurrent scheduler that make the unit step of
\* their commit in the step taken
UnitWriters ==
    {k \in DOMAIN loop_futures :
        loop_futures[k] = "locked" /\ loop_futures'[k] = "unit"}

\* C24: the unit recorded on a dataset is set by the first commit to it
\* and never changed afterwards.  In every step of either scheduler a
\* dataset that has a unit keeps it, and a dataset whose content changes
\* has a unit afterwards; in the concurrent scheduler a step that records
\* the unit of a dataset is the unit step of exactly one writer, which
\* writes that dataset, holds the lock of its store and records the unit
\* of its own block
C24_UnitSetOnce ==
    [][\A o \in Observers, a \in Instruments :
          \A dn \in DOMAIN hf[o][a] :
             LET dset == hf[o][a][dn]
             IN  /\ dn \in DOMAIN hf'[o][a]
                 /\ HasUnit(dset) => hf'[o][a][dn].attrs = dset.attrs
                 /\ hf'[o][a][dn] # dset => HasUnit(hf'[o][a][dn])
                 /\ (o = "parallel" /\ ~HasUnit(dset)
                       /\ HasUnit(hf'[o][a][dn]))
                       => /\ Cardinality(UnitWriters) = 1
                          /\ \A k \in UnitWriters :
                                /\ InstrumentName(k[1]) = a
                                /\ k[2] = dn
                                /\ locks[LockName(k[1], k[2])] = k
                                /\ hf'[o][a][dn].attrs.unit
                                      = y[k].result.unit]_vars

\* C24 witness: in the concurrent scheduler a writer has made the unit
\* step of its commit on a dataset whose unit an earlier writer, now
\* finished, had recorded
C24_Witness ==
    \E k1 \in DOMAIN loop_futures, k2 \in DOMAIN loop_futures :
        /\ k1[1] = k2[1] /\ k1[2] = k2[2] /\ k1[3] # k2[3]
        /\ loop_futures[k1] = "finished"
        /\ loop_futures[k2] = "unit"
        /\ HasUnit(hf["parallel"][InstrumentName(k1[1])][k1[2]])

----------------------------------------------------------------------------
(* Termination of the concurrent flatten phase (checked under FairSpec) *)

\* flatten_detector_counts of the concurrent observer has returned
ParallelFlattenEnded == par.pc \in {"bin_submit", "bin_wait", "done"}

\* every write future of every quantity and channel of every instrument
\* has been dispatched and is done (finished or erred)
AllWritesDone ==
    \A k \in AllKeys :
        (interpolate_hydro_quantities \/ k[2] \in Channels)
           => k \in DOMAIN loop_futures /\ Done(loop_futures[k])

\* C25: a write task releases the lock of its store on every exit from
\* its critical section, also when its commit raises: a lock is held only
\* by a write inside its critical section.  Hence, under fair scheduling,
\* the flatten phase ends: there comes a state where every wait on write
\* futures has returned, every write task has been dispatched and is done
\* (finished or erred), and no lock is held
C25_WritesAndBarriersTerminate ==
    /\ [](\A nm \in DOMAIN locks : InCriticalSection(locks[nm]))
    /\ <>(ParallelFlattenEnded /\ AllWritesDone /\ locks = <<>>)

\* C25 witness: the flatten phase has ended after the commit of a write
\* raised inside its critical section: its interpolation had succeeded,
\* the write erred, no lock is held, and another write of the same store
\* finished
C25_Witness ==
    /\ ParallelFlattenEnded
    /\ locks = <<>>
    /\ \E k1 \in DOMAIN loop_futures, k2 \in DOMAIN loop_futures :
          /\ k1[1] = k2[1]
          /\ y[k1].status = "finished"
          /\ loop_futures[k1] = "error"
          /\ loop_futures[k2] = "finished"

----------------------------------------------------------------------------
(* The barrier after each quantity (checked under Spec) *)

\* the interpolation of future k or the write of its value has been
\* submitted and is not done
InFlight(k) ==
    /\ k \in DOMAIN loop_futures
    /\ y[k].status = "pending" \/ ~Done(loop_futures[k])

\* C26: the concurrent scheduler waits after each hydrodynamic quantity.
\* When the tasks of a quantity of an instrument have been submitted,
\* every write task of every earlier quantity of that instrument, for
\* every loop, is done; so tasks of two hydrodynamic quantities of one
\* instrument are never in flight together
C26_BarrierAfterEachQuantity ==
    \A a \in 1..NInstruments :
        \A q1 \in 1..Len(HydroQuantities), q2 \in 1..Len(HydroQuantities) :
            LET ks1 == FutureKeys(a, HydroQuantities[q1])
                ks2 == FutureKeys(a, HydroQuantities[q2])
            IN  (q1 < q2 /\ ks2 \cap DOMAIN loop_futures # {})
                   => /\ ks1 \subseteq DOMAIN loop_futures
                      /\ \A k \in ks1 :
                            Done(y[k].status) /\ Done(loop_futures[k])
                      /\ ~(\E k1 \in ks1, k2 \in ks2 :
                              InFlight(k1) /\ InFlight(k2))

\* C26 witness: the tasks of two loops for the second quantity are in
\* flight together, one interpolating and one writing, after every task
\* of the first quantity is done
C26_Witness ==
    \E k1 \in FutureKeys(1, HydroQuantities[2]),
       k2 \in FutureKeys(1, HydroQuantities[2]) :
        /\ k1 # k2
        /\ InFlight(k1) /\ y[k1].status = "pending"
        /\ InFlight(k2) /\ InCriticalSection(k2)
        /\ \A k \in FutureKeys(1, HydroQuantities[1]) :
              Done(loop_futures[k])

----------------------------------------------------------------------------
(* Frame of a commit (checked under StoreSpec) *)

\* C23: a commit of a block of n columns at start index s into a dataset
\* changes, in the store, only the cells of the columns s .. s+n-1 of that
\* dataset, in every row, and its unit when none was recorded: the window
\* holds the block, every other column of the dataset, its shape and a
\* unit recorded before are as before the call, and so is every other
\* dataset of the store
C23_CommitFrame ==
    last_call.op = "commit" =>
        LET dn     == last_call.dset
            before == last_call.before[dn]
            after  == TheStore[dn]
            s      == last_call.start_index
            n      == Len(last_call.y.value[1])
        IN  /\ DOMAIN TheStore = DOMAIN last_call.before
            /\ \A other \in DOMAIN TheStore \ {dn} :
                  TheStore[other] = last_call.before[other]
            /\ after.shape = before.shape
            /\ after.attrs = IF HasUnit(before) THEN before.attrs
                             ELSE [unit |-> last_call.y.unit]
            /\ \A r \in 1..before.shape[1], c \in 1..before.shape[2] :
                  after.data[r][c] =
                     IF c - 1 \in Window(s, n)
                     THEN last_call.y.value[r][c - s]
                     ELSE before.data[r][c]

\* C23 witness: a commit at a window that does not start the dataset, into
\* a dataset that held written cells outside the window and a unit, in a
\* store that holds other quantity datasets
C23_Witness ==
    /\ last_call.op = "commit"
    /\ last_call.start_index > 0
    /\ HasUnit(last_call.before[last_call.dset])
    /\ \E c \in 1..last_call.start_index :
          last_call.before[last_call.dset].data[1][c] # 0
    /\ QuantityDatasets(TheStore) \ {last_call.dset} # {}

----------------------------------------------------------------------------
(* Properties of the reads of the aggregate positions (checked under       *)
(* ReadSpec)                                                               *)

\* C21: a read of the aggregate positions of an instrument, or of the
\* field of view, the detector array or the header derived from them,
\* made while the instrument has no counts file (its store has not been
\* built) raises instead of returning data, and leaves every store file
\* as it was: none is created
C21_ReadBeforeBuildFails ==
    [][(/\ last_call' # last_call
        /\ last_call'.op \in ReadOps
        /\ ~has_counts_file("serial"))
          => /\ ~last_call'.result.ok
             /\ last_call'.result.error = "AttributeError"
             /\ hf' = hf
             /\ \A a \in 1..NInstruments :
                   hf'["serial"][InstrumentName(a)] = EmptyStore]_vars

\* C21 witness: the header was requested before the build and the request
\* raised; no store file exists
C21_Witness ==
    /\ last_call.op = "make_fits_header"
    /\ ~last_call.result.ok
    /\ ~has_counts_file("serial")
    /\ hf["serial"][InstrumentName(1)] = EmptyStore

----------------------------------------------------------------------------
(* Properties of loop construction (checked under LoopSpec) *)

\* the quantity arrays of a constructed loop have as many positions as the
\* loop has
ShapeConsistent(loop) == loop.width = loop.native

\* C22: shape validation is done at construction: every loop that has been
\* constructed has quantity arrays of the shape of its positions, so every
\* interpolation dispatched is for a shape-consistent loop
C22_ShapeValidatedAtConstruction ==
    /\ \A l \in DOMAIN loops : ShapeConsistent(loops[l])
    /\ last_call.op = "interpolate" => ShapeConsistent(loops[last_call.l])

====
